---- MODULE Spec2Model ----
(***************************************************************************)
(* Faura resilience ROI dashboards (Streamlit multipage app).              *)
(*                                                                         *)
(* The app is a set of pages that share one session_state.  Every user     *)
(* interaction (a visit, a password submission, a widget change) triggers  *)
(* a rerun of the page script from top to bottom; a rerun is one action.   *)
(* Widgets without a key lose their value when the page is left, so a      *)
(* visit starts a page from its default inputs.                            *)
(*                                                                         *)
(* Python floats are modelled by exact rationals, with the values next to  *)
(* zero on the grid of the smallest positive float: the dashboards'        *)
(* arithmetic is +, -, * and a guarded /.                                  *)
(***************************************************************************)
EXTENDS Integers, Sequences, FiniteSets, TLC

VARIABLES
    session,    \* st.session_state: a function from the keys present to values
    page,       \* the page script the browser shows
    inp,        \* the widget values of the current page (a record per page)
    out,        \* what the last rerun of the page computed and rendered
    server      \* state of the server process, shared by all reruns: numpy's
                \* global generator and the st.cache_data store

vars == <<session, page, inp, out, server>>

\* the server process of the pages that neither draw random numbers nor
\* cache data
Idle == [np_random |-> 0, cache_data |-> <<>>]

\* Python evaluates an expression once and binds a name to its value:
\* F applied to the value of v
Bind(v, F(_)) == CHOOSE r \in {F(x) : x \in {v}} : TRUE

(***************************************************************************)
(* Float arithmetic.  A value [n, d, u] is the rational n/d (lowest terms, *)
(* d > 0) times the u-th power of the smallest positive float, 2^-1074     *)
(* (5e-324).  Ordinary values have u = 0 and are computed exactly; the     *)
(* values next to zero have u = 1 and are whole multiples of the smallest  *)
(* positive float, so a result that falls between two of them is rounded   *)
(* to the nearest, ties to the even multiple, and a result below half of   *)
(* the smallest is 0.0.  d = 0 stands for an infinity (n its sign).        *)
(***************************************************************************)
Abs(x) == IF x < 0 THEN -x ELSE x

Sign(x) == IF x < 0 THEN -1 ELSE IF x > 0 THEN 1 ELSE 0

RECURSIVE GCD(_, _)
GCD(a, b) == IF b = 0 THEN a ELSE GCD(b, a % b)

\* the rational n/d in lowest terms with a positive denominator (d # 0)
Lowest == [n \in Int, d \in Int |->
    LET g == GCD(Abs(n), Abs(d))
        s == IF (n < 0) = (d < 0) THEN 1 ELSE -1
    IN  [n |-> s * (Abs(n) \div g), d |-> Abs(d) \div g, u |-> 0]]

Rat(n, d) == Lowest[n, d]

R(i) == [n |-> i, d |-> 1, u |-> 0]

Zero == R(0)

\* the smallest positive float, 5e-324
MinPositive == [n |-> 1, d |-> 1, u |-> 1]

Infinity(sign) == [n |-> sign, d |-> 0, u |-> 0]

\* the values of the arithmetic below
Floats == [n : Int, d : Int, u : Int]

\* n/d (d > 0) rounded to the nearest integer, ties to even
RoundHalfEven == [n \in Int, d \in Int |->
    LET whole == Abs(n) \div d
        twice == 2 * (Abs(n) % d)
        up    == twice > d \/ (twice = d /\ whole % 2 = 1)
    IN  Sign(n) * (IF up THEN whole + 1 ELSE whole)]

\* the float nearest to the exact result x
Rounded == [x \in Floats |->
    IF x.n = 0 \/ x.u >= 2 THEN Zero
    ELSE IF x.u = 0 THEN x
    ELSE LET k == RoundHalfEven[x.n, x.d]
         IN  IF k = 0 THEN Zero ELSE [n |-> k, d |-> 1, u |-> 1]]

\* x * y: the exact product, cancelling across before multiplying, rounded
Mul == [x \in Floats, y \in Floats |->
    IF x.d = 0 \/ y.d = 0 THEN Infinity(Sign(x.n) * Sign(y.n))
    ELSE LET g1 == GCD(Abs(x.n), y.d)
             g2 == GCD(Abs(y.n), x.d)
         IN  Rounded[[n |-> (x.n \div g1) * (y.n \div g2),
                      d |-> (x.d \div g2) * (y.d \div g1),
                      u |-> x.u + y.u]]]

RMul(x, y) == Mul[x, y]

\* x + y over the least common denominator; an ordinary value absorbs a
\* value next to zero
Add == [x \in Floats, y \in Floats |->
    IF x.d = 0 THEN x
    ELSE IF y.d = 0 THEN y
    ELSE IF x.u = y.u
    THEN LET g == GCD(x.d, y.d)
             sum == Rat(x.n * (y.d \div g) + y.n * (x.d \div g),
                        (x.d \div g) * y.d)
         IN  IF sum.n = 0 THEN Zero ELSE [sum EXCEPT !.u = x.u]
    ELSE IF x.n = 0 THEN y
    ELSE IF y.n = 0 THEN x
    ELSE IF x.u < y.u THEN x ELSE y]

RAdd(x, y) == Add[x, y]

Neg == [x \in Floats |-> [x EXCEPT !.n = -x.n]]

RNeg(x) == Neg[x]

RSub(x, y) == RAdd(x, RNeg(y))

\* x / y for finite x and finite y # 0: the exact quotient, rounded; an
\* ordinary value divided by a value next to zero overflows to an infinity
Div == [x \in Floats, y \in Floats |->
    LET g1 == GCD(Abs(x.n), Abs(y.n))
        g2 == GCD(x.d, y.d)
        q  == [n |-> Sign(y.n) * (x.n \div g1) * (y.d \div g2),
               d |-> (x.d \div g2) * (Abs(y.n) \div g1),
               u |-> x.u - y.u]
    IN  IF x.n = 0 THEN Zero
        ELSE IF q.u < 0 THEN Infinity(Sign(q.n))
        ELSE Rounded[q]]

RDiv(x, y) == Div[x, y]

RLt(x, y) == RSub(x, y).n < 0

RLe(x, y) == RSub(x, y).n <= 0

RGt(x, y) == RLt(y, x)

\* the percentage scaled as a per-mille value
PctPerMille(p) == Rat(p, 1000)

\* a percentage widget value converted to a fraction: value / 100
Pct(p) == Rat(p, 100)

(***************************************************************************)
(* Text of the sidebar currency fields.  A text is a sequence of           *)
(* one-character strings.                                                  *)
(***************************************************************************)
DigitChars == <<"0", "1", "2", "3", "4", "5", "6", "7", "8", "9">>

DigitSet == {DigitChars[i] : i \in 1..10}

IsDigit(c) == c \in DigitSet

DigitTable == [c \in DigitSet |-> (CHOOSE i \in 1..10 : DigitChars[i] = c) - 1]

DigitVal(c) == DigitTable[c]

\* str.replace(c, '')
Replace(s, c) == SelectSeq(s, LAMBDA ch : ch # c)

\* str.strip(): drop leading and trailing whitespace
RECURSIVE LStrip(_)
LStrip(s) == IF s # <<>> /\ Head(s) = " " THEN LStrip(Tail(s)) ELSE s

RECURSIVE RStrip(_)
RStrip(s) ==
    IF s # <<>> /\ s[Len(s)] = " " THEN RStrip(SubSeq(s, 1, Len(s) - 1)) ELSE s

Strip(s) == RStrip(LStrip(s))

RECURSIVE Pow10(_)
Pow10(k) == IF k = 0 THEN 1 ELSE 10 * Pow10(k - 1)

\* the integer written by a sequence of digit characters
RECURSIVE DigitsValue(_)
DigitsValue(ds) ==
    IF ds = <<>> THEN 0
    ELSE 10 * DigitsValue(SubSeq(ds, 1, Len(ds) - 1)) + DigitVal(ds[Len(ds)])

\* float(s) on a decimal literal: [sign] digits [. digits] or [sign] . digits,
\* with surrounding whitespace ignored; anything else raises ValueError
\* (exponents, inf, nan and digit-group underscores are outside the alphabet
\* of the texts the model types)
FloatOf(t) ==
    LET signed == t # <<>> /\ Head(t) \in {"-", "+"}
        body   == IF signed THEN Tail(t) ELSE t
        dots   == {i \in 1..Len(body) : body[i] = "."}
        digs   == SelectSeq(body, IsDigit)
        wellformed ==
            /\ \A i \in 1..Len(body) : IsDigit(body[i]) \/ body[i] = "."
            /\ Cardinality(dots) <= 1
            /\ digs # <<>>
        fracLen == IF dots = {} THEN 0
                   ELSE Len(body) - (CHOOSE i \in dots : TRUE)
        mag    == Rat(DigitsValue(digs), Pow10(fracLen))
    IN  IF wellformed
        THEN [raised |-> "none",
              val |-> IF signed /\ Head(t) = "-" THEN RNeg(mag) ELSE mag]
        ELSE [raised |-> "ValueError", val |-> Zero]

Float(s) == Bind(Strip(s), FloatOf)

\* the decimal digits of a natural number
RECURSIVE DigitsOf(_)
DigitsOf(v) ==
    IF v < 10 THEN <<DigitChars[v + 1]>>
    ELSE Append(DigitsOf(v \div 10), DigitChars[(v % 10) + 1])

RECURSIVE Grouped(_)
Grouped(ds) ==
    IF Len(ds) <= 3 THEN ds
    ELSE Grouped(SubSeq(ds, 1, Len(ds) - 3)) \o <<",">>
         \o SubSeq(ds, Len(ds) - 2, Len(ds))

\* f"${default_value:,.0f}" for a natural number
FormatCurrency(v) == <<"$">> \o Grouped(DigitsOf(v))

\* an except clause that names another exception
except_TypeError == "TypeError"

\* the exception the try statement of currency_input handles
except_clause == "ValueError"

\* the try statement of currency_input around float() of the cleaned text:
\* the parsed number; the default when the handled exception is raised
\* (error: the handler ran); any other exception leaves the function
try_float(user_input, default_value) ==
    Bind(Float(Strip(Replace(Replace(user_input, "$"), ","))), LAMBDA f :
        IF f.raised = "none"
        THEN [raised |-> "none", clean_val |-> f.val, error |-> FALSE]
        ELSE IF f.raised = except_clause
        THEN [raised |-> "none", clean_val |-> R(default_value), error |-> TRUE]
        ELSE [raised |-> f.raised, clean_val |-> Zero, error |-> FALSE])

\* currency_input of Home.py, Risk_Sensitivity.py and
\* Conversion_Elasticity.py: the handler also shows "Please enter a valid
\* number" in the sidebar
currency_input(user_input, default_value) == try_float(user_input, default_value)

\* currency_input of 1_Risk_Sensitivity.py: the handler shows nothing
currency_input_quiet(user_input, default_value) ==
    [try_float(user_input, default_value) EXCEPT !.error = FALSE]

(***************************************************************************)
(* Password gate (callback variant of Home.py and the pages copied from it)*)
(***************************************************************************)
Put(s, k, v) == [x \in DOMAIN s \cup {k} |-> IF x = k THEN v ELSE s[x]]

Del(s, k) == [x \in DOMAIN s \ {k} |-> s[x]]

NoKeys == [x \in {} |-> FALSE]

\* a callback that accepts whatever was typed
password_entered_accepting(s) ==
    Del(Put(s, "password_correct", TRUE), "password")

\* a callback that leaves the typed text in the session state
password_entered_keeping(s) ==
    Put(s, "password_correct", s["password"] = "Faura2026")

\* on_change callback of the password field; s["password"] is the typed text
password_entered(s) ==
    IF s["password"] = "Faura2026"
    THEN Del(Put(s, "password_correct", TRUE), "password")
    ELSE Put(s, "password_correct", FALSE)

\* check_password: the session state it leaves and the value it returns.
\* Rendering the keyed text_input registers its value under "password".
check_password(s) ==
    LET s1 == IF "password_correct" \notin DOMAIN s
              THEN Put(s, "password_correct", FALSE) ELSE s
    IN  IF ~ s1["password_correct"]
        THEN [session |-> IF "password" \in DOMAIN s1 THEN s1
                          ELSE Put(s1, "password", ""),
              ok |-> FALSE]
        ELSE [session |-> s1, ok |-> TRUE]

(***************************************************************************)
(* Profitability model: Home.py, Risk_Sensitivity.py,                      *)
(* Conversion_Elasticity.py                                                *)
(***************************************************************************)
ProfitPages == {"Home", "Risk_Sensitivity", "Conversion_Elasticity"}

T(v) == FormatCurrency(v)

\* the widget defaults of each page (value= of number_input, default_value
\* of currency_input)
Defaults(p) ==
    CASE p = "Home" ->
           [n_homes |-> 100, avg_premium |-> 10000, avg_tiv |-> 1000000,
            expense_ratio_input |-> 15, burn_prob_input |-> 1,
            mdr_unmitigated_input |-> 80, mdr_mitigated_input |-> 30,
            faura_cost |-> 30, conversion_input |-> 20,
            gift_card |-> 50, premium_discount |-> 100]
      [] p = "Risk_Sensitivity" ->
           [n_homes |-> 100, avg_premium |-> 10000, avg_tiv |-> 1000000,
            expense_ratio_input |-> 20, burn_prob_input |-> 1,
            mdr_unmitigated_input |-> 80, mdr_mitigated_input |-> 30,
            faura_cost |-> 30, conversion_input |-> 20,
            gift_card |-> 50, premium_discount |-> 100]
      [] p = "Conversion_Elasticity" ->
           [n_homes |-> 1000, avg_premium |-> 2500, avg_tiv |-> 1000000,
            expense_ratio_input |-> 20, burn_prob_input |-> 1,
            mdr_unmitigated_input |-> 80, mdr_mitigated_input |-> 30,
            faura_cost |-> 30,
            gift_card |-> 50, premium_discount |-> 100]

CurrencyFields ==
    {"avg_premium", "avg_tiv", "faura_cost", "gift_card", "premium_discount"}

\* the widget state of a freshly visited page: number inputs hold their
\* value, currency fields hold the formatted default text
InitialWidgets(p) ==
    LET d == Defaults(p)
    IN  [f \in DOMAIN d |-> IF f \in CurrencyFields THEN T(d[f]) ELSE d[f]]

\* the sidebar section of the script: widget values to model parameters
Sidebar(p, w) ==
    LET d == Defaults(p)
        money(f) == currency_input(w[f], d[f]).clean_val
    IN  [n_homes |-> R(w.n_homes),
         avg_premium |-> money("avg_premium"),
         avg_tiv |-> money("avg_tiv"),
         faura_cost |-> money("faura_cost"),
         gift_card |-> money("gift_card"),
         premium_discount |-> money("premium_discount"),
         expense_ratio |-> Pct(w.expense_ratio_input),
         burn_prob |-> Pct(w.burn_prob_input),
         mdr_unmitigated |-> Pct(w.mdr_unmitigated_input),
         mdr_mitigated |-> Pct(w.mdr_mitigated_input),
         conversion_rate |-> IF "conversion_input" \in DOMAIN w
                             THEN Pct(w.conversion_input) ELSE Zero]

\* n_homes * conversion_rate: the homes that adopt mitigation
converted(n_homes, rate) == RMul(n_homes, rate)

\* slips of the complement: the rate itself, n_homes - rate, 1 + rate
unconverted_as_converted(n_homes, rate) == RMul(n_homes, rate)

unconverted_precedence_slip(n_homes, rate) == RSub(n_homes, rate)

unconverted_sign_slip(n_homes, rate) == RMul(n_homes, RAdd(R(1), rate))

\* n_homes * (1 - conversion_rate): the homes that do not
unconverted(n_homes, rate) == RMul(n_homes, RSub(R(1), rate))

\* homes * avg_tiv * probability * mdr: the expected loss of a group of homes
expected_loss(homes, avg_tiv, prob, mdr) ==
    RMul(RMul(RMul(homes, avg_tiv), prob), mdr)

\* the fee charged once for the portfolio instead of once per home
program_fee_flat(n_homes, faura_cost) == faura_cost

\* n_homes * faura_cost: the fixed fee, charged for every home
program_fee(n_homes, faura_cost) == RMul(n_homes, faura_cost)

\* the local variables of calculate_metrics for parameters q
metrics_locals(q) ==
    LET total_premium    == RMul(q.n_homes, q.avg_premium)
        total_uw_expense == RMul(total_premium, q.expense_ratio)
        sq_losses        == expected_loss(q.n_homes, q.avg_tiv, q.burn_prob,
                                          q.mdr_unmitigated)
        sq_total_cost    == RAdd(total_uw_expense, sq_losses)
        sq_profit        == RSub(total_premium, sq_total_cost)
        n_converted      == converted(q.n_homes, q.conversion_rate)
        n_unconverted    == unconverted(q.n_homes, q.conversion_rate)
        faura_loss_unconverted ==
            expected_loss(n_unconverted, q.avg_tiv, q.burn_prob, q.mdr_unmitigated)
        faura_loss_converted ==
            expected_loss(n_converted, q.avg_tiv, q.burn_prob, q.mdr_mitigated)
        faura_total_losses == RAdd(faura_loss_unconverted, faura_loss_converted)
        total_faura_fee  == program_fee(q.n_homes, q.faura_cost)
        total_gift_cards == RMul(n_converted, q.gift_card)
        total_discounts  == RMul(n_converted, q.premium_discount)
        faura_total_cost ==
            RAdd(RAdd(RAdd(RAdd(total_uw_expense, faura_total_losses),
                           total_faura_fee), total_gift_cards), total_discounts)
        faura_profit     == RSub(total_premium, faura_total_cost)
    IN  [total_premium |-> total_premium,
         total_uw_expense |-> total_uw_expense,
         sq_losses |-> sq_losses,
         sq_profit |-> sq_profit,
         n_converted |-> n_converted,
         n_unconverted |-> n_unconverted,
         faura_loss_unconverted |-> faura_loss_unconverted,
         faura_loss_converted |-> faura_loss_converted,
         faura_total_losses |-> faura_total_losses,
         total_faura_fee |-> total_faura_fee,
         total_gift_cards |-> total_gift_cards,
         total_discounts |-> total_discounts,
         faura_profit |-> faura_profit]

\* the dictionary with the premium discounts left out of the incentives
calculate_metrics_no_discounts(q) ==
    Bind(metrics_locals(q), LAMBDA l :
        [total_premium |-> l.total_premium,
         sq_losses |-> l.sq_losses,
         sq_profit |-> l.sq_profit,
         faura_profit |-> l.faura_profit,
         sq_expenses |-> l.total_uw_expense,
         faura_losses |-> l.faura_total_losses,
         faura_program_cost |-> l.total_faura_fee,
         faura_incentives |-> l.total_gift_cards,
         faura_expenses |-> l.total_uw_expense])

\* calculate_metrics: the dictionary it returns
calculate_metrics(q) ==
    Bind(metrics_locals(q), LAMBDA l :
        [total_premium |-> l.total_premium,
         sq_losses |-> l.sq_losses,
         sq_profit |-> l.sq_profit,
         faura_profit |-> l.faura_profit,
         sq_expenses |-> l.total_uw_expense,
         faura_losses |-> l.faura_total_losses,
         faura_program_cost |-> l.total_faura_fee,
         faura_incentives |-> RAdd(l.total_gift_cards, l.total_discounts),
         faura_expenses |-> l.total_uw_expense])

\* a ratio shown to the user: whether a division was performed, by what,
\* whether it raised ZeroDivisionError, and the value shown
NoDivision(v) == [raised |-> FALSE, divided |-> FALSE, denom |-> Zero, value |-> v]

Division(num, den) ==
    [raised |-> den.n = 0, divided |-> TRUE, denom |-> den,
     value |-> IF den.n = 0 THEN Zero ELSE RDiv(num, den)]

Times100(r) == [r EXCEPT !.value = RMul(r.value, R(100))]

\* "ROI on Mitigation Spend" (col4 of the Home dashboard), in percent;
\* "0%" when nothing was invested
roi_on_spend(profit_diff, program_investment) ==
    IF RGt(program_investment, Zero)
    THEN Times100(Division(profit_diff, program_investment))
    ELSE NoDivision(Zero)

\* the Home script after the gate
HomeContent(w) ==
    Bind(Sidebar("Home", w), LAMBDA q :
    Bind(calculate_metrics(q), LAMBDA metrics :
    Bind(RSub(metrics.faura_profit, metrics.sq_profit), LAMBDA profit_diff :
    Bind(RAdd(metrics.faura_program_cost, metrics.faura_incentives),
         LAMBDA program_investment :
        [profit_diff |-> profit_diff,
         program_investment |-> program_investment,
         metrics |-> metrics,
         stopped |-> FALSE,
         params |-> q,
         roi |-> roi_on_spend(profit_diff, program_investment)]))))

\* the incident probabilities of the scenario bar chart
scenarios == <<Rat(1, 10000), Rat(1, 1000), Rat(5, 1000), Rat(1, 100), Rat(2, 100)>>

\* crossover incident probability of Risk_Sensitivity.py
crossover(q, total_program_cost) ==
    Bind(converted(q.n_homes, q.conversion_rate), LAMBDA n_converted :
    Bind(RSub(q.mdr_unmitigated, q.mdr_mitigated), LAMBDA mdr_diff :
    Bind(RMul(n_converted, q.avg_tiv), LAMBDA tiv_risk_pool :
        IF RGt(tiv_risk_pool, Zero) /\ RGt(mdr_diff, Zero)
        THEN Division(total_program_cost, RMul(tiv_risk_pool, mdr_diff))
        ELSE NoDivision(Zero))))

\* the Risk_Sensitivity script after its sidebar, for parameters q
RiskSensitivityDashboard(q) ==
    Bind(calculate_metrics(q), LAMBDA metrics :
    Bind(RAdd(metrics.faura_program_cost, metrics.faura_incentives),
         LAMBDA total_program_cost :
    Bind([i \in 1..Len(scenarios) |->
             calculate_metrics([q EXCEPT !.burn_prob = scenarios[i]])],
         LAMBDA res :
        [metrics |-> metrics,
         stopped |-> FALSE,
         params |-> q,
         total_program_cost |-> total_program_cost,
         crossover_Incident_prob |-> crossover(q, total_program_cost),
         sq_data |-> [i \in 1..Len(scenarios) |-> res[i].sq_profit],
         faura_data |-> [i \in 1..Len(scenarios) |-> res[i].faura_profit],
         deltas |-> [i \in 1..Len(scenarios) |->
                        RSub(res[i].faura_profit, res[i].sq_profit)]])))

\* the Risk_Sensitivity script after the gate
RiskSensitivityContent(w) ==
    Bind(Sidebar("Risk_Sensitivity", w), RiskSensitivityDashboard)

\* np.linspace(0, 1, 101): the number of conversion rates of the sweep
SweepPoints == 101

conversion_rates == [i \in 1..SweepPoints |-> Rat(i - 1, SweepPoints - 1)]

\* the values calculate_elasticity computes before its loop
elasticity_constants(q) ==
    LET sq_losses   == expected_loss(q.n_homes, q.avg_tiv, q.burn_prob,
                                     q.mdr_unmitigated)
        sq_expenses == RMul(RMul(q.n_homes, q.avg_premium), q.expense_ratio)
        sq_profit   == RSub(RSub(RMul(q.n_homes, q.avg_premium), sq_expenses),
                            sq_losses)
    IN  [sq_losses |-> sq_losses,
         sq_profit |-> sq_profit,
         sq_expenses |-> sq_expenses,
         total_incentives_per_conversion |->
             RAdd(q.gift_card, q.premium_discount)]

\* the local variables of one iteration of the loop of calculate_elasticity
elasticity_locals(q, c, rate) ==
    LET n_converted   == converted(q.n_homes, rate)
        n_unconverted == unconverted(q.n_homes, rate)
        loss_unconverted ==
            expected_loss(n_unconverted, q.avg_tiv, q.burn_prob, q.mdr_unmitigated)
        loss_converted ==
            expected_loss(n_converted, q.avg_tiv, q.burn_prob, q.mdr_mitigated)
        total_losses  == RAdd(loss_unconverted, loss_converted)
        program_fees  == program_fee(q.n_homes, q.faura_cost)
        incentive_costs == RMul(n_converted, c.total_incentives_per_conversion)
        faura_profit  ==
            RSub(RSub(RSub(RSub(RMul(q.n_homes, q.avg_premium), c.sq_expenses),
                           total_losses), program_fees), incentive_costs)
    IN  [n_converted |-> n_converted,
         n_unconverted |-> n_unconverted,
         faura_profit |-> faura_profit,
         total_losses |-> total_losses,
         program_fees |-> program_fees,
         incentive_costs |-> incentive_costs]

\* calculate_elasticity: the rows of the data frame it returns
calculate_elasticity(q) ==
    Bind(elasticity_constants(q), LAMBDA c :
        [i \in 1..SweepPoints |->
            Bind(elasticity_locals(q, c, conversion_rates[i]), LAMBDA l :
                [Conversion_Rate |-> RMul(conversion_rates[i], R(100)),
                 Faura_Profit |-> l.faura_profit,
                 Status_Quo_Profit |-> c.sq_profit,
                 Net_Benefit |-> RSub(l.faura_profit, c.sq_profit)])])

\* the search taking the first row that does not lose
breakeven_not_losing(df) ==
    LET pos == {i \in 1..Len(df) : RLe(Zero, df[i].Net_Benefit)}
    IN  IF pos = {} THEN [rate |-> Zero, found |-> FALSE]
        ELSE [rate |-> df[CHOOSE i \in pos : \A j \in pos : i <= j].Conversion_Rate,
              found |-> TRUE]

\* the breakeven search: the first row with Net_Benefit > 0, or "Never"
breakeven(df) ==
    LET pos == {i \in 1..Len(df) : RGt(df[i].Net_Benefit, Zero)}
    IN  IF pos = {} THEN [rate |-> Zero, found |-> FALSE]
        ELSE [rate |-> df[CHOOSE i \in pos : \A j \in pos : i <= j].Conversion_Rate,
              found |-> TRUE]

\* the Conversion_Elasticity script after the gate
ElasticityContent(w) ==
    Bind(Sidebar("Conversion_Elasticity", w), LAMBDA q :
    Bind(calculate_elasticity(q), LAMBDA df :
        [stopped |-> FALSE,
         params |-> q,
         df |-> df,
         breakeven |-> breakeven(df)]))

(***************************************************************************)
(* Page scripts, reruns and user actions                                   *)
(***************************************************************************)
Pages == ProfitPages

\* everything after "if not check_password(): st.stop()"
Content(p, w) ==
    CASE p = "Home" -> HomeContent(w)
      [] p = "Risk_Sensitivity" -> RiskSensitivityContent(w)
      [] p = "Conversion_Elasticity" -> ElasticityContent(w)

Stopped == [stopped |-> TRUE]

\* one run of the script of page p on session state s and widget values w
Script(p, s, w) ==
    Bind(check_password(s), LAMBDA gate :
        IF ~ gate.ok
        THEN [session |-> gate.session, out |-> Stopped]
        ELSE [session |-> gate.session, out |-> Content(p, w)])

\* largest home count the model enters, in multiples of the page default
MaxScale == 2

\* a text that is no number, and a negative amount
Invalid == <<"a", "b", "c">>

Rebate == <<"-", "$", "3", "0">>

\* the values the model enters into the widgets of page p
ChoicesOf(p) ==
    LET d == Defaults(p)
        homes == {k * d.n_homes : k \in 0..MaxScale}
    IN  CASE p = "Home" ->
               [n_homes |-> homes,
                avg_tiv |-> {T(d.avg_tiv), T(0)},
                mdr_unmitigated_input |-> {30, 80},
                mdr_mitigated_input |-> {30, 80},
                faura_cost |-> {T(d.faura_cost), T(0)},
                conversion_input |-> {0, 20, 100},
                gift_card |-> {T(d.gift_card), T(0)},
                premium_discount |-> {T(d.premium_discount), Invalid}]
          [] p = "Risk_Sensitivity" ->
               [n_homes |-> {0, d.n_homes},
                avg_premium |-> {T(d.avg_premium), Invalid},
                burn_prob_input |-> {0, 1},
                mdr_unmitigated_input |-> {30, 80},
                mdr_mitigated_input |-> {30, 80},
                conversion_input |-> {0, 20, 100}]
          [] p = "Conversion_Elasticity" ->
               [n_homes |-> {0, d.n_homes},
                mdr_mitigated_input |-> {30, 80},
                faura_cost |-> {T(d.faura_cost), T(0), Rebate},
                gift_card |-> {T(d.gift_card), T(0)}]

Choices == [p \in Pages |-> ChoicesOf(p)]

Passwords == {"Faura2026", "faura2026", ""}

\* the content a page shows right after a visit, from its default widgets
FreshContent == [p \in Pages |-> Content(p, InitialWidgets(p))]

\* a rerun of page p with widget values w
Rerun(p, s, w) ==
    \E run \in {Script(p, s, w)} :
        /\ session' = run.session
        /\ out' = run.out

Init ==
    /\ page = "Home"
    /\ inp = InitialWidgets("Home")
    /\ session = check_password(NoKeys).session
    /\ out = Stopped
    /\ server = Idle

\* the user opens page p: its widgets start from their defaults
Visit(p) ==
    /\ page' = p
    /\ inp' = InitialWidgets(p)
    /\ \E gate \in {check_password(session)} :
           /\ session' = gate.session
           /\ out' = IF gate.ok THEN FreshContent[p] ELSE Stopped
    /\ UNCHANGED server

\* the user changes the password field to pw: the callback runs, then the
\* script reruns
SubmitPassword(pw) ==
    /\ out.stopped
    /\ pw # session["password"]
    /\ Rerun(page, password_entered(Put(session, "password", pw)), inp)
    /\ UNCHANGED <<page, inp, server>>

\* the user changes widget f to v: the script reruns
SetWidget(f, v) ==
    /\ ~ out.stopped
    /\ v # inp[f]
    /\ inp' = [inp EXCEPT ![f] = v]
    /\ Rerun(page, session, inp')
    /\ UNCHANGED <<page, server>>

Next ==
    \/ \E p \in Pages : Visit(p)
    \/ \E pw \in Passwords : SubmitPassword(pw)
    \/ \E f \in DOMAIN Choices[page] : \E v \in Choices[page][f] : SetWidget(f, v)

Spec == Init /\ [][Next]_vars

(***************************************************************************)
(* Properties of the profitability model                                   *)
(***************************************************************************)
Shown(p) == page = p /\ ~ out.stopped

MetricsPages == {"Home", "Risk_Sensitivity"}

ShownMetrics == page \in MetricsPages /\ ~ out.stopped

\* fee total + gift cards + discounts, from the dictionary of a rerun
ProgramCostOf(m) == RAdd(m.faura_program_cost, m.faura_incentives)

\* C1: with the default inputs of Home.py (100 homes, $10,000 premium,
\* $1,000,000 TIV, 15% expenses, 1% incident probability, MDR 80% / 30%,
\* 20% conversion, $30 fee, $50 gift card, $100 discount) the rerun computes
\* total_premium 1,000,000, expenses 150,000, status-quo losses 800,000 and
\* profit 50,000, mitigated losses 700,000, program cost 6,000 (3,000 fee +
\* 3,000 incentives), mitigated profit 144,000, claims saved 100,000 and net
\* ROI 94,000.
C1_ConcreteScenario ==
    (Shown("Home") /\ inp = InitialWidgets("Home")) =>
        /\ out.metrics.total_premium = R(1000000)
        /\ out.metrics.sq_expenses = R(150000)
        /\ out.metrics.sq_losses = R(800000)
        /\ out.metrics.sq_profit = R(50000)
        /\ out.metrics.faura_losses = R(700000)
        /\ out.metrics.faura_program_cost = R(3000)
        /\ out.metrics.faura_incentives = R(3000)
        /\ out.program_investment = R(6000)
        /\ out.metrics.faura_profit = R(144000)
        /\ RSub(out.metrics.sq_losses, out.metrics.faura_losses) = R(100000)
        /\ out.profit_diff = R(94000)

C1_Witness ==
    /\ Shown("Home")
    /\ inp = InitialWidgets("Home")
    /\ out.params.n_homes = R(100)
    /\ out.params.conversion_rate = Rat(1, 5)

\* C2: at conversion rate 0 the mitigated losses equal the status-quo
\* losses, no incentive is charged, and the mitigated profit is the
\* status-quo profit minus n_homes * faura_cost; the first row of the
\* elasticity sweep is the 0% row, its Net_Benefit is -(n_homes * faura_cost)
\* and, when the fee is not negative, its profit is not above the status quo.
C2_ZeroConversion ==
    /\ (ShownMetrics /\ out.params.conversion_rate = Zero) =>
          /\ out.metrics.faura_losses = out.metrics.sq_losses
          /\ out.metrics.faura_incentives = Zero
          /\ out.metrics.faura_profit =
                RSub(out.metrics.sq_profit,
                     RMul(out.params.n_homes, out.params.faura_cost))
    /\ Shown("Conversion_Elasticity") =>
          /\ out.df[1].Conversion_Rate = Zero
          /\ out.df[1].Net_Benefit =
                RNeg(RMul(out.params.n_homes, out.params.faura_cost))
          /\ RLe(Zero, out.params.faura_cost) =>
                RLe(out.df[1].Faura_Profit, out.df[1].Status_Quo_Profit)

C2_Witness ==
    /\ Shown("Home")
    /\ out.params.conversion_rate = Zero
    /\ RGt(out.metrics.sq_losses, Zero)
    /\ RGt(out.metrics.faura_program_cost, Zero)
    /\ RLt(out.metrics.faura_profit, out.metrics.sq_profit)

\* n_homes * avg_tiv * incident probability * mdr_mitigated
AllMitigated(q) ==
    RMul(RMul(RMul(q.n_homes, q.avg_tiv), q.burn_prob), q.mdr_mitigated)

\* C3: at conversion rate 1 no home is unconverted and the mitigated losses
\* are exactly n_homes * avg_tiv * incident probability * mdr_mitigated, on
\* the metrics pages and in the last row of the elasticity sweep.
C3_FullConversion ==
    /\ (ShownMetrics /\ out.params.conversion_rate = R(1)) =>
          /\ metrics_locals(out.params).n_unconverted = Zero
          /\ out.metrics.faura_losses = AllMitigated(out.params)
    /\ Shown("Conversion_Elasticity") =>
          LET last == elasticity_locals(out.params,
                                        elasticity_constants(out.params),
                                        conversion_rates[SweepPoints])
          IN  /\ conversion_rates[SweepPoints] = R(1)
              /\ last.n_unconverted = Zero
              /\ last.total_losses = AllMitigated(out.params)

C3_Witness ==
    /\ Shown("Home")
    /\ out.params.conversion_rate = R(1)
    /\ RGt(out.metrics.faura_losses, Zero)
    /\ RLt(out.metrics.faura_losses, out.metrics.sq_losses)

\* the parameters of two reruns agree except in field f
SameExcept(q1, q2, f) == \A g \in DOMAIN q1 \ {f} : q1[g] = q2[g]

\* the total losses of row i of the elasticity sweep
SweepLosses(q) ==
    LET c == elasticity_constants(q)
    IN  [i \in 1..SweepPoints |->
            elasticity_locals(q, c, conversion_rates[i]).total_losses]

SweepMonotone(q) ==
    LET losses == SweepLosses(q)
    IN  \A i \in 1..(SweepPoints - 1) : RLe(losses[i + 1], losses[i])

Twice(x) == RMul(R(2), x)

\* C5: a rerun of Home with twice the home count and the other parameters
\* unchanged has exactly twice the total premium, status-quo losses,
\* mitigated losses, program cost and both profits; with no homes the program
\* costs nothing.
C5_Linearity ==
    /\ [][(/\ Shown("Home")
           /\ page' = page
           /\ ~ out'.stopped
           /\ SameExcept(out.params, out'.params, "n_homes")
           /\ out'.params.n_homes = Twice(out.params.n_homes))
          => /\ out'.metrics.total_premium = Twice(out.metrics.total_premium)
             /\ out'.metrics.sq_losses = Twice(out.metrics.sq_losses)
             /\ out'.metrics.faura_losses = Twice(out.metrics.faura_losses)
             /\ ProgramCostOf(out'.metrics) =
                    Twice(ProgramCostOf(out.metrics))
             /\ out'.metrics.sq_profit = Twice(out.metrics.sq_profit)
             /\ out'.metrics.faura_profit = Twice(out.metrics.faura_profit)]_vars
    /\ []((Shown("Home") /\ out.params.n_homes = Zero)
          => ProgramCostOf(out.metrics) = Zero)

C5_Witness ==
    /\ Shown("Home")
    /\ out.params.n_homes = R(200)
    /\ out.metrics.total_premium = R(2000000)
    /\ RGt(ProgramCostOf(out.metrics), Zero)

\* C6: the profit difference Home displays (mitigated profit minus
\* status-quo profit) equals the claims saved (status-quo losses minus
\* mitigated losses) minus the program investment, which is the fee total
\* plus the gift cards plus the discounts.
C6_NetRoiConsistent ==
    Shown("Home") =>
        LET l == metrics_locals(out.params)
        IN  /\ out.program_investment =
                  RAdd(RAdd(l.total_faura_fee, l.total_gift_cards),
                       l.total_discounts)
            /\ out.profit_diff =
                  RSub(RSub(out.metrics.sq_losses, out.metrics.faura_losses),
                       out.program_investment)

C6_Witness ==
    /\ Shown("Home")
    /\ RGt(metrics_locals(out.params).total_discounts, Zero)
    /\ RGt(metrics_locals(out.params).total_gift_cards, Zero)
    /\ RGt(out.metrics.faura_program_cost, Zero)
    /\ RGt(RSub(out.metrics.sq_losses, out.metrics.faura_losses), Zero)

(***************************************************************************)
(* Campaign prioritizer: 2_Carrier_Campaign_Prioritizer.py,                *)
(* Carrier_Campaign_Prioritizer.py and the lift curve of                   *)
(* 3_Getting_Started.py (the same code over gross_expected_loss).          *)
(* The functions are applied to portfolios and budgets drawn from bounded  *)
(* sets: inp holds the data frame df and budget_count, out the value the   *)
(* last call returned.                                                     *)
(***************************************************************************)
CarrierPages == {"2_Carrier_Campaign_Prioritizer", "Carrier_Campaign_Prioritizer"}

CampaignPages == CarrierPages \cup {"3_Getting_Started"}

\* largest portfolio the model draws; budgets go one beyond it
MaxHomes == 3

Budgets == 0..(MaxHomes + 1)

\* expected annual losses, premium and np.random.rand() draws of the rows
Risks == {R(0), R(250)}

Premium == R(150)

Randoms == {Rat(1, 4), Rat(3, 4)}

\* one row of df after the strategy columns have been added
Row(i, loss, rnd) ==
    [Policy_ID |-> i,
     Expected_Loss_Annual |-> loss,
     Annual_Premium |-> Premium,
     Underwriting_Gap |-> RSub(loss, Premium),
     Rank_Risk |-> loss,
     Rank_Random |-> rnd]

\* the data frames of up to MaxHomes rows
Portfolios ==
    UNION {{[i \in 1..n |-> Row(i, c[i].loss, c[i].rnd)] :
                c \in [1..n -> [loss : Risks, rnd : Randoms]]} :
           n \in 0..MaxHomes}

Min(a, b) == IF a <= b THEN a ELSE b

\* the orders in which n rows can be arranged
Arrangements ==
    [n \in 0..(MaxHomes + 1) |->
        {p \in [1..n -> 1..n] : \A i, j \in 1..n : i # j => p[i] # p[j]}]

Orders(n) == Arrangements[n]

\* rows in ascending order of rank_col
sort_values_ascending(d, rank_col) ==
    {[i \in 1..Len(d) |-> d[p[i]]] :
        p \in {q \in Orders(Len(d)) :
                 \A i \in 1..(Len(d) - 1) :
                    RLe(d[q[i]][rank_col], d[q[i + 1]][rank_col])}}

\* df.sort_values(rank_col, ascending=False): the frames it may return (the
\* order of rows with equal rank is not determined)
sort_values(d, rank_col) ==
    {[i \in 1..Len(d) |-> d[p[i]]] :
        p \in {q \in Orders(Len(d)) :
                 \A i \in 1..(Len(d) - 1) :
                    RLe(d[q[i + 1]][rank_col], d[q[i]][rank_col])}}

\* DataFrame.head(k) for k >= 0
head(d, k) == SubSeq(d, 1, Min(k, Len(d)))

\* Series.sum() of column col
RECURSIVE ColumnSum(_, _)
ColumnSum(d, col) ==
    IF Len(d) = 0 THEN Zero
    ELSE RAdd(ColumnSum(SubSeq(d, 1, Len(d) - 1), col), d[Len(d)][col])

\* the column as it stands, without accumulation
not_cumulated(d, col) == [i \in 1..Len(d) |-> d[i][col]]

\* Series.cumsum() of column col: the running totals
RECURSIVE cumsum(_, _)
cumsum(d, col) ==
    IF Len(d) = 0 THEN <<>>
    ELSE Bind(cumsum(SubSeq(d, 1, Len(d) - 1), col), LAMBDA before :
            Append(before,
                   RAdd(IF before = <<>> THEN Zero ELSE before[Len(before)],
                        d[Len(d)][col])))

\* evaluate_campaign: the dictionaries it may return
evaluate_campaign(d, budget_count, rank_col, name) ==
    Bind(Min(budget_count, Len(d)), LAMBDA safe_budget :
        {[Name |-> name,
          Total_Risk_Targeted |-> ColumnSum(campaign, "Expected_Loss_Annual"),
          Total_Gap_Targeted |-> ColumnSum(campaign, "Underwriting_Gap"),
          Selection |-> campaign] :
            campaign \in {head(sorted, safe_budget) :
                            sorted \in sort_values(d, rank_col)}})

\* get_lift_curve: the frames it may return, one row per home
get_lift_curve(d, rank_col, name) ==
    {Bind(cumsum(sorted_df, "Expected_Loss_Annual"), LAMBDA Cum_Risk :
        [i \in 1..Len(sorted_df) |->
            [Cum_Risk |-> Cum_Risk[i],
             Pct_Homes_Targeted |-> Rat(i, Len(sorted_df)),
             Strategy |-> name]]) :
        sorted_df \in sort_values(d, rank_col)}

\* the rank columns with the names the script passes to evaluate_campaign
Campaigns ==
    [Rank_Risk |-> "Faura Risk Prioritized",
     Rank_Random |-> "Random Outreach (Control)"]

\* the rank columns with the names the script passes to get_lift_curve
Strategies ==
    [Rank_Risk |-> "Faura Prioritized", Rank_Random |-> "Random Outreach"]

NoCall == [rank_col |-> "none", call |-> "none"]

InitCampaign ==
    /\ page \in CampaignPages
    /\ session = Put(NoKeys, "password_correct", TRUE)
    /\ inp \in [df : Portfolios, budget_count : Budgets]
    /\ out = NoCall
    /\ server = Idle

\* the last call of the script was call(rank_col, ...)
After(call, rank_col) == out.call = call /\ out.rank_col = rank_col

\* a run of the script begins: nothing was called yet, or the previous run
\* has made its last call
AtStart == out.call = "none" \/ After("get_lift_curve", "Rank_Random")

\* the calls of evaluate_campaign, in the order of the script: res_faura,
\* then res_rand
EvaluateCampaign(rank_col) ==
    /\ page \in CarrierPages
    /\ IF rank_col = "Rank_Risk" THEN AtStart
       ELSE After("evaluate_campaign", "Rank_Risk")
    /\ \E r \in evaluate_campaign(inp.df, inp.budget_count, rank_col,
                                  Campaigns[rank_col]) :
          out' = [rank_col |-> rank_col, call |-> "evaluate_campaign",
                  result |-> r]
    /\ UNCHANGED <<session, page, inp, server>>

\* the calls of get_lift_curve, in the order of the script: the prioritized
\* curve, then the random one.  3_Getting_Started.py selects its pilot
\* inline and stops before the curves when the sheet is empty.
GetLiftCurve(rank_col) ==
    /\ IF rank_col = "Rank_Random" THEN After("get_lift_curve", "Rank_Risk")
       ELSE IF page \in CarrierPages
            THEN After("evaluate_campaign", "Rank_Random")
            ELSE AtStart /\ Len(inp.df) > 0
    /\ \E r \in get_lift_curve(inp.df, rank_col, Strategies[rank_col]) :
          out' = [rank_col |-> rank_col, call |-> "get_lift_curve",
                  result |-> r]
    /\ UNCHANGED <<session, page, inp, server>>

NextCampaign ==
    \/ \E rank_col \in DOMAIN Campaigns : EvaluateCampaign(rank_col)
    \/ \E rank_col \in DOMAIN Strategies : GetLiftCurve(rank_col)

SpecCampaign == InitCampaign /\ [][NextCampaign]_vars

C8_Selection ==
    out.call = "evaluate_campaign" =>
        LET sel    == out.result.Selection
            n      == Len(inp.df)
            chosen == {sel[i].Policy_ID : i \in 1..Len(sel)}
        IN  /\ Len(sel) = IF inp.budget_count <= n THEN inp.budget_count ELSE n
            /\ Cardinality(chosen) = Len(sel)
            /\ \A i \in 1..Len(sel) : sel[i] = inp.df[sel[i].Policy_ID]
            /\ \A i \in 1..Len(sel) : \A j \in (1..n) \ chosen :
                  RLe(inp.df[j][out.rank_col], sel[i][out.rank_col])
            /\ out.result.Total_Risk_Targeted =
                  ColumnSum([i \in 1..Len(sel) |-> inp.df[sel[i].Policy_ID]],
                            "Expected_Loss_Annual")
            /\ (inp.budget_count = 0 \/ n = 0) =>
                  /\ sel = <<>>
                  /\ out.result.Total_Risk_Targeted = Zero

C8_Witness ==
    /\ out.call = "evaluate_campaign"
    /\ out.rank_col = "Rank_Risk"
    /\ Len(inp.df) = 3
    /\ inp.budget_count = 2
    /\ Len(out.result.Selection) = 2
    /\ out.result.Total_Risk_Targeted = R(500)
    /\ \E j \in 1..3 : inp.df[j].Expected_Loss_Annual = Zero

(***************************************************************************)
(* The ratios the dashboards display.  Each is applied to arguments drawn  *)
(* from bounded sets: inp holds the call and its arguments, out the ratio  *)
(* (see Division).                                                         *)
(***************************************************************************)
\* 4_Campaign_Analytics_Live.py: a yield in percent, 0 for an empty base
safe_calc(numerator, denominator) ==
    IF denominator = Zero THEN NoDivision(Zero)
    ELSE Times100(Division(numerator, denominator))

\* 2_Carrier_Campaign_Prioritizer.py: "Net Program ROI", 0 without cost
campaign_roi(total_savings, total_program_cost) ==
    IF RGt(total_program_cost, Zero)
    THEN Division(RSub(total_savings, total_program_cost), total_program_cost)
    ELSE NoDivision(Zero)

\* 2_Carrier_Campaign_Prioritizer.py: "Avg Savings per Success", "$0" when
\* no targeted home changed its outcome
avg_savings_per_success(total_savings, denom) ==
    IF RGt(denom, Zero) THEN Division(total_savings, denom)
    ELSE NoDivision(Zero)

\* 2_Carrier_Campaign_Prioritizer.py: the lift of the prioritized campaign
\* over the random one in percent, 0 when the random campaign targets no risk
risk_lift_pct(faura_risk, rand_risk) ==
    Bind(RSub(faura_risk, rand_risk), LAMBDA risk_diff :
        IF RGt(rand_risk, Zero)
        THEN Times100(Division(risk_diff, rand_risk))
        ELSE NoDivision(Zero))

\* dollar amounts: a loss, nothing, the smallest positive float, a gain
Amounts == {R(-50), Zero, MinPositive, R(3000)}

\* row counts
Counts == {R(0), R(3), R(10)}

\* the parameters of Risk_Sensitivity.py the model varies for the crossover;
\* the others keep their defaults
CrossoverParams ==
    [n_homes : {R(0), R(100)},
     avg_tiv : {Zero, MinPositive, R(1000000)},
     mdr_unmitigated : {Pct(30), Pct(80)},
     mdr_mitigated : {Pct(30), Pct(80)},
     conversion_rate : {Zero, Pct(1), Pct(20), R(1)}]

WithParams(q, c) ==
    [f \in DOMAIN q |-> IF f \in DOMAIN c THEN c[f] ELSE q[f]]

InitRatio ==
    /\ page = "Home"
    /\ session = Put(NoKeys, "password_correct", TRUE)
    /\ inp = [site |-> "none"]
    /\ out = NoDivision(Zero)
    /\ server = Idle

\* Home.py, col4 of the top metrics
HomeRoi ==
    \E profit_diff \in Amounts, program_investment \in Amounts :
        /\ page' = "Home"
        /\ inp' = [site |-> "roi_on_spend",
                   args |-> [profit_diff |-> profit_diff,
                             program_investment |-> program_investment]]
        /\ out' = roi_on_spend(profit_diff, program_investment)
        /\ UNCHANGED <<session, server>>

\* 4_Campaign_Analytics_Live.py, the funnel yields
SafeCalc ==
    \E numerator \in Counts, denominator \in Counts :
        /\ page' = "4_Campaign_Analytics_Live"
        /\ inp' = [site |-> "safe_calc",
                   args |-> [numerator |-> numerator,
                             denominator |-> denominator]]
        /\ out' = safe_calc(numerator, denominator)
        /\ UNCHANGED <<session, server>>

\* 2_Carrier_Campaign_Prioritizer.py, metric m3
CampaignRoi ==
    \E total_savings \in Amounts, total_program_cost \in Amounts :
        /\ page' = "2_Carrier_Campaign_Prioritizer"
        /\ inp' = [site |-> "campaign_roi",
                   args |-> [total_program_cost |-> total_program_cost,
                             total_savings |-> total_savings]]
        /\ out' = campaign_roi(total_savings, total_program_cost)
        /\ UNCHANGED <<session, server>>

\* 2_Carrier_Campaign_Prioritizer.py, metric m4
AvgSavings ==
    \E total_savings \in Amounts, denom \in Counts :
        /\ page' = "2_Carrier_Campaign_Prioritizer"
        /\ inp' = [site |-> "avg_savings_per_success",
                   args |-> [denom |-> denom, total_savings |-> total_savings]]
        /\ out' = avg_savings_per_success(total_savings, denom)
        /\ UNCHANGED <<session, server>>

\* 2_Carrier_Campaign_Prioritizer.py, metric c1 of the deep dive
RiskLift ==
    \E faura_risk \in Amounts, rand_risk \in Amounts :
        /\ page' = "2_Carrier_Campaign_Prioritizer"
        /\ inp' = [site |-> "risk_lift_pct",
                   args |-> [faura_risk |-> faura_risk, rand_risk |-> rand_risk]]
        /\ out' = risk_lift_pct(faura_risk, rand_risk)
        /\ UNCHANGED <<session, server>>

\* Risk_Sensitivity.py, the crossover of a run with parameters q
Crossover ==
    \E c \in CrossoverParams :
        \E q \in {WithParams(FreshContent["Risk_Sensitivity"].params, c)} :
            /\ page' = "Risk_Sensitivity"
            /\ inp' = [site |-> "crossover", args |-> q]
            /\ out' = RiskSensitivityDashboard(q).crossover_Incident_prob
            /\ UNCHANGED <<session, server>>

NextRatio ==
    \/ HomeRoi
    \/ SafeCalc
    \/ CampaignRoi
    \/ AvgSavings
    \/ RiskLift
    \/ Crossover

SpecRatio == InitRatio /\ [][NextRatio]_vars

\* the converted TIV and the MDR difference of the crossover call
ConvertedTiv(q) == RMul(RMul(q.n_homes, q.conversion_rate), q.avg_tiv)

MdrDifference(q) == RSub(q.mdr_unmitigated, q.mdr_mitigated)

\* the call returned the sentinel 0 without dividing
Sentinel == ~ out.divided /\ out.value = Zero

\* C9: none of the six ratios divides by zero, whatever its arguments: a
\* division that is performed has a non-zero denominator and does not
\* raise, and with a degenerate denominator (program investment 0, base
\* count 0, program cost 0, no successes, random risk 0, converted TIV 0 or
\* MDR difference <= 0) the call returns the sentinel 0.
C9_GuardedRatios ==
    /\ out.divided => (out.denom # Zero /\ ~ out.raised)
    /\ (inp.site = "roi_on_spend" /\ inp.args.program_investment = Zero)
          => Sentinel
    /\ (inp.site = "safe_calc" /\ inp.args.denominator = Zero) => Sentinel
    /\ (inp.site = "campaign_roi" /\ inp.args.total_program_cost = Zero)
          => Sentinel
    /\ (inp.site = "avg_savings_per_success" /\ inp.args.denom = Zero)
          => Sentinel
    /\ (inp.site = "risk_lift_pct" /\ inp.args.rand_risk = Zero) => Sentinel
    /\ (/\ inp.site = "crossover"
        /\ \/ ConvertedTiv(inp.args) = Zero
           \/ RLe(MdrDifference(inp.args), Zero))
          => Sentinel

\* the crossover divides by a product that has rounded to 0.0
C9_Witness ==
    /\ inp.site = "crossover"
    /\ RGt(ConvertedTiv(inp.args), Zero)
    /\ RGt(MdrDifference(inp.args), Zero)
    /\ out.divided
    /\ out.denom = Zero
    /\ out.raised

(***************************************************************************)
(* The currency fields: currency_input applied to the texts a user can     *)
(* type.  inp holds the text of the field and the default of the field,    *)
(* out what currency_input returned on the rerun after the edit.           *)
(***************************************************************************)
\* the longest text the model types
MaxLen == 4

\* the characters the model types; "x" stands for any character that is no
\* part of a number
Keys == {"$", ",", " ", "-", ".", "5", "x"}

\* a page with each variant of currency_input, and one of its fields
CurrencyField ==
    [p \in {"Home", "1_Risk_Sensitivity"} |->
        IF p = "Home"
        THEN [default_value |-> 1000000, label |-> "Avg TIV per Home"]
        ELSE [default_value |-> 20, label |-> "Faura Cost per Home"]]

\* the rerun of page p: currency_input on the text of the field
CurrencyRerun(p, user_input, default_value) ==
    IF p = "Home" THEN currency_input(user_input, default_value)
    ELSE currency_input_quiet(user_input, default_value)

InitCurrency ==
    /\ page \in DOMAIN CurrencyField
    /\ session = Put(NoKeys, "password_correct", TRUE)
    /\ inp = [user_input |-> FormatCurrency(CurrencyField[page].default_value),
              default_value |-> CurrencyField[page].default_value]
    /\ out = CurrencyRerun(page, inp.user_input, inp.default_value)
    /\ server = Idle

\* the field's text becomes text: the script reruns
Edited(text) ==
    /\ inp' = [inp EXCEPT !.user_input = text]
    /\ out' = CurrencyRerun(page, text, inp.default_value)
    /\ UNCHANGED <<session, page, server>>

TypeKey(c) ==
    /\ Len(inp.user_input) < MaxLen
    /\ Edited(Append(inp.user_input, c))

Backspace ==
    /\ inp.user_input # <<>>
    /\ Edited(SubSeq(inp.user_input, 1, Len(inp.user_input) - 1))

NextCurrency ==
    \/ \E c \in Keys : TypeKey(c)
    \/ Backspace

SpecCurrency == InitCurrency /\ [][NextCurrency]_vars

\* the text without "$" and ","
Kept(text) == SelectSeq(text, LAMBDA ch : ch \notin {"$", ","})

\* C10: currency_input never raises; it returns the number the text
\* denotes once "$", "," and the surrounding blanks are removed, and the
\* default of the field when that is no number.  In particular the
\* formatted default parses back to the default, a text of digits (with
\* "$" and "," anywhere) denotes their decimal value, and a text with a
\* foreign character or without a digit yields the default.  Home.py shows
\* its message exactly when the default was substituted.
C10_CurrencyFallback ==
    LET kept   == Kept(inp.user_input)
        digits == SelectSeq(kept, IsDigit)
        parsed == Float(Strip(kept))
        fallback == R(inp.default_value)
    IN  /\ out.raised = "none"
        /\ parsed.raised = "none" => out.clean_val = parsed.val
        /\ parsed.raised # "none" => out.clean_val = fallback
        /\ inp.user_input = FormatCurrency(inp.default_value)
              => (out.clean_val = fallback /\ ~ out.error)
        /\ (kept = digits /\ digits # <<>>)
              => out.clean_val = R(DigitsValue(digits))
        /\ ((\E i \in 1..Len(kept) : kept[i] = "x") \/ digits = <<>>)
              => out.clean_val = fallback
        /\ out.error = (page = "Home" /\ parsed.raised # "none")

C10_Witness ==
    /\ page = "Home"
    /\ inp.user_input = <<"$", "5", "x">>
    /\ out.raised = "none"
    /\ out.error
    /\ out.clean_val = R(1000000)

(***************************************************************************)
(* Reruns of the campaign prioritizer: 2_Carrier_Campaign_Prioritizer.py   *)
(* from the sidebar to the lift curves.  numpy's global generator is a     *)
(* deterministic function of its state; it is modelled by a small          *)
(* congruential generator, and the variates of every distribution by the   *)
(* uniform variate they are computed from.  server.np_random is the state  *)
(* of the generator, server.cache_data the portfolios st.cache_data holds. *)
(***************************************************************************)
\* the number of states of the generator
Modulus == 64

\* np.random.seed(s)
seed(s) == s % Modulus

\* the state after one variate has been drawn
advance(x) == (5 * x + 3) % Modulus

\* size variates drawn from state x: the values in [0, 1) and the state left
RECURSIVE draw(_, _)
draw(x, size) ==
    IF size = 0 THEN [state |-> x, values |-> <<>>]
    ELSE Bind(advance(x), LAMBDA y :
         Bind(draw(y, size - 1), LAMBDA rest :
            [state |-> rest.state,
             values |-> <<Rat(y, Modulus)>> \o rest.values]))

\* np.clip(v, lo, hi)
clip(v, lo, hi) == IF RLt(v, lo) THEN lo ELSE IF RGt(v, hi) THEN hi ELSE v

\* one row of the frame generate_portfolio builds from the variates of its
\* four draws
PortfolioRow(i, u_tiv, u_fire, u_score, u_rate) ==
    Bind(clip(RMul(R(8000000), u_tiv), R(250000), R(4000000)), LAMBDA tiv :
    Bind(clip(RMul(Rat(5, 100), u_fire), Rat(1, 1000), Rat(25, 1000)),
         LAMBDA prob_fire :
    Bind(clip(RMul(R(100), u_score), R(10), R(95)), LAMBDA qa_score :
    Bind(RAdd(Rat(2, 1000), RMul(Rat(6, 1000), u_rate)), LAMBDA rate :
    Bind(RMul(tiv, rate), LAMBDA premium :
    Bind(clip(RDiv(RSub(R(100), qa_score), R(100)), Rat(10, 100), R(1)),
         LAMBDA susceptibility :
    Bind(RMul(RMul(tiv, prob_fire), susceptibility), LAMBDA loss :
        [Policy_ID |-> i - 1,
         Expected_Loss_Annual |-> loss,
         Annual_Premium |-> premium,
         Underwriting_Gap |-> RSub(loss, premium),
         TIV |-> tiv,
         Fire_Prob |-> prob_fire,
         Resilience_Score |-> qa_score,
         Susceptibility |-> susceptibility])))))))

\* the body of generate_portfolio(n): the frame and the generator it leaves
generate_portfolio(n) ==
    Bind(draw(seed(42), n), LAMBDA tiv :
    Bind(draw(tiv.state, n), LAMBDA prob_fire :
    Bind(draw(prob_fire.state, n), LAMBDA qa_score :
    Bind(draw(qa_score.state, n), LAMBDA rate :
        [np_random |-> rate.state,
         df |-> [i \in 1..n |->
                   PortfolioRow(i, tiv.values[i], prob_fire.values[i],
                                qa_score.values[i], rate.values[i])]]))))

\* @st.cache_data on generate_portfolio: a stored frame is returned without
\* running the body; otherwise the body runs and its frame is stored
cached_generate_portfolio(srv, n) ==
    IF n \in DOMAIN srv.cache_data
    THEN [np_random |-> srv.np_random,
          cache_data |-> srv.cache_data,
          df |-> srv.cache_data[n]]
    ELSE Bind(generate_portfolio(n), LAMBDA g :
            [np_random |-> g.np_random,
             cache_data |-> Put(srv.cache_data, n, g.df),
             df |-> g.df])

\* df["Rank_Risk"] and df["Rank_Random"] added to the frame
Ranked(df, rand) ==
    [i \in 1..Len(df) |->
        [Policy_ID |-> df[i].Policy_ID,
         Expected_Loss_Annual |-> df[i].Expected_Loss_Annual,
         Annual_Premium |-> df[i].Annual_Premium,
         Underwriting_Gap |-> df[i].Underwriting_Gap,
         Rank_Risk |-> df[i].Expected_Loss_Annual,
         Rank_Random |-> rand[i],
         TIV |-> df[i].TIV,
         Fire_Prob |-> df[i].Fire_Prob,
         Resilience_Score |-> df[i].Resilience_Score,
         Susceptibility |-> df[i].Susceptibility]]

\* the fixed costs of the script
screening_cost_per == R(3)

outreach_cost_per == R(20)

psa_incentive == R(50)

mitigation_incentive == R(300)

\* np.random.choice(outcomes, p=[0.85, 0.10, 0.05]) for the variate u
Outcome(u) ==
    IF RLt(u, Rat(85, 100)) THEN "Status Quo"
    ELSE IF RLt(u, Rat(95, 100)) THEN "P(Ignition) Halved"
    ELSE "P(Ignition) Quartered"

Loss_Multiplier(outcome) ==
    CASE outcome = "Status Quo" -> R(1)
      [] outcome = "P(Ignition) Halved" -> Rat(1, 2)
      [] outcome = "P(Ignition) Quartered" -> Rat(1, 4)

calculate_row_cost(outcome) ==
    LET base == RAdd(screening_cost_per, outreach_cost_per)
    IN  IF outcome = "Status Quo" THEN base
        ELSE RAdd(RAdd(base, psa_incentive), mitigation_incentive)

\* target_df: the selection with its simulated outcomes
Simulated(selection, choice) ==
    [i \in 1..Len(selection) |->
        Bind(Outcome(choice[i]), LAMBDA outcome :
        Bind(RMul(selection[i].Expected_Loss_Annual, Loss_Multiplier(outcome)),
             LAMBDA new_loss :
            [Policy_ID |-> selection[i].Policy_ID,
             Expected_Loss_Annual |-> selection[i].Expected_Loss_Annual,
             Outcome_Type |-> outcome,
             New_Expected_Loss |-> new_loss,
             Annual_Savings |->
                 RSub(selection[i].Expected_Loss_Annual, new_loss),
             Row_Cost |-> calculate_row_cost(outcome)]))]

\* sort_values returns one of the frames it may return, the same one for
\* the same frame
Picked(results) == CHOOSE r \in results : TRUE

\* one run of the script after the gate on the server state srv: what it
\* shows and the server state it leaves
Prioritizer(srv, total_homes_count, budget_count) ==
    Bind(cached_generate_portfolio(srv, total_homes_count), LAMBDA g :
    Bind(draw(g.np_random, Len(g.df)), LAMBDA rand :
    Bind(Ranked(g.df, rand.values), LAMBDA df :
    Bind(Picked(evaluate_campaign(df, budget_count, "Rank_Risk",
                                  Campaigns["Rank_Risk"])), LAMBDA res_faura :
    Bind(Picked(evaluate_campaign(df, budget_count, "Rank_Random",
                                  Campaigns["Rank_Random"])), LAMBDA res_rand :
    Bind(draw(seed(99), Len(res_faura.Selection)), LAMBDA choice :
    Bind(Simulated(res_faura.Selection, choice.values), LAMBDA target_df :
    Bind(ColumnSum(target_df, "Annual_Savings"), LAMBDA total_savings :
    Bind(ColumnSum(target_df, "Row_Cost"), LAMBDA total_program_cost :
        [out |-> [roi |-> campaign_roi(total_savings, total_program_cost),
                  total_program_cost |-> total_program_cost,
                  total_savings |-> total_savings,
                  faura_risk |-> res_faura.Total_Risk_Targeted,
                  rand_risk |-> res_rand.Total_Risk_Targeted,
                  selection |-> [i \in 1..Len(res_faura.Selection) |->
                                    res_faura.Selection[i].Policy_ID],
                  target_df |-> target_df,
                  shown |-> TRUE,
                  portfolio |-> g.df,
                  lift_faura |-> Picked(get_lift_curve(df, "Rank_Risk",
                                            Strategies["Rank_Risk"])),
                  lift_rand |-> Picked(get_lift_curve(df, "Rank_Random",
                                            Strategies["Rank_Random"]))],
         server |-> [np_random |-> choice.state, cache_data |-> g.cache_data]]
    )))))))))

\* the portfolio sizes and pilot sizes the model enters
HomeCounts == 1..MaxHomes

PilotSizes == 1..(MaxHomes + 1)

\* the server has started (its generator seeded from the operating system)
\* and the page has not run yet
InitRerun ==
    /\ page = "2_Carrier_Campaign_Prioritizer"
    /\ session = Put(NoKeys, "password_correct", TRUE)
    /\ inp = [budget_count |-> 1, total_homes_count |-> MaxHomes]
    /\ out = [shown |-> FALSE]
    /\ server \in [np_random : 0..(Modulus - 1), cache_data : {<<>>}]

\* the user sets the sidebar (or leaves it as it is) and the script reruns
RerunPrioritizer(total_homes_count, budget_count) ==
    \E run \in {Prioritizer(server, total_homes_count, budget_count)} :
        /\ inp' = [budget_count |-> budget_count,
                   total_homes_count |-> total_homes_count]
        /\ out' = run.out
        /\ server' = run.server
        /\ UNCHANGED <<session, page>>

NextRerun ==
    \E n \in HomeCounts, b \in PilotSizes : RerunPrioritizer(n, b)

SpecRerun == InitRerun /\ [][NextRerun]_vars

\* what a run shows when generate_portfolio is executed
Executed ==
    Prioritizer([np_random |-> 0, cache_data |-> <<>>],
                inp.total_homes_count, inp.budget_count).out

\* C11: every rerun of the prioritizer shows, for the sidebar inputs it ran
\* with, what a run that executes generate_portfolio shows for them: the
\* same portfolio, prioritized selection, random baseline total, simulated
\* outcomes, savings, cost, ROI and lift curves, however many reruns came
\* before and whether or not the portfolio came from the cache.
C11_StatelessRecomputation == out.shown => out = Executed

\* a rerun served from the cache shows the same portfolio and prioritized
\* selection as the executed run, and another random baseline curve
C11_Witness ==
    /\ out.shown
    /\ out.portfolio = Executed.portfolio
    /\ out.selection = Executed.selection
    /\ out.faura_risk = Executed.faura_risk
    /\ out.rand_risk # Executed.rand_risk
    /\ out.target_df = Executed.target_df
    /\ out.lift_rand # Executed.lift_rand

(***************************************************************************)
(* The password gates of all pages in one session.  The pages carry three  *)
(* variants of check_password: the callback variant of Home.py (see        *)
(* check_password above), the callback variant of the Portfolio Analytics  *)
(* pages, which shows an error, and the login form.  inp holds the last    *)
(* submission and whether an incorrect password was ever submitted, out    *)
(* what the last run showed.                                               *)
(***************************************************************************)
CallbackPages ==
    {"Home", "Risk_Sensitivity", "Conversion_Elasticity", "3_Getting_Started",
     "4_Campaign_Analytics_Live"}

PortfolioAnalyticsPages ==
    {"3_Portfolio_Analytics_Live", "4_Portfolio_Analytics_Live"}

FormPages ==
    {"1_Risk_Sensitivity", "2_Carrier_Campaign_Prioritizer",
     "Carrier_Campaign_Prioritizer", "CA_Wildfire_Savings", "CA_FAIR_Savings",
     "7_FAIR_QA_Discounts_Demo", "FAIR_QA_Discounts_Demo"}

AllPages == CallbackPages \cup PortfolioAnalyticsPages \cup FormPages

\* st.session_state.get("password_correct", False)
password_correct(s) ==
    IF "password_correct" \in DOMAIN s THEN s["password_correct"] ELSE FALSE

\* st.text_input(..., key="password"): the field is registered in the
\* session state with the text it holds
KeyedInput(s) == IF "password" \in DOMAIN s THEN s ELSE Put(s, "password", "")

\* check_password of the Portfolio Analytics pages
check_password_analytics(s) ==
    IF "password_correct" \notin DOMAIN s
    THEN [session |-> KeyedInput(s), error |-> FALSE, ok |-> FALSE]
    ELSE IF ~ s["password_correct"]
    THEN [session |-> KeyedInput(s), error |-> TRUE, ok |-> FALSE]
    ELSE [session |-> s, error |-> FALSE, ok |-> TRUE]

\* check_password of the pages with a login form; submitted: the run was
\* triggered by the form's button, password: the text of its field.
\* st.rerun() restarts the script, whose check_password then returns True.
check_password_form(s, submitted, password) ==
    IF password_correct(s)
    THEN [session |-> s, error |-> FALSE, ok |-> TRUE]
    ELSE IF submitted /\ password = "Faura2026"
    THEN [session |-> Put(s, "password_correct", TRUE),
          error |-> FALSE,
          ok |-> password_correct(Put(s, "password_correct", TRUE))]
    ELSE [session |-> s, error |-> submitted, ok |-> FALSE]

\* check_password of page p
Gate(p, s, submitted, password) ==
    IF p \in FormPages THEN check_password_form(s, submitted, password)
    ELSE IF p \in PortfolioAnalyticsPages THEN check_password_analytics(s)
    ELSE Bind(check_password(s), LAMBDA g :
            [session |-> g.session, error |-> FALSE, ok |-> g.ok])

\* the session states a run may leave: an entry of a keyed widget the run
\* did not render is dropped, or kept when the widget is taken up again
Kept_or_dropped(p, gate) ==
    IF p \notin FormPages /\ ~ gate.ok THEN {gate.session}
    ELSE {gate.session, Del(gate.session, "password")}

\* one run of the script of page p
GateRun(p, s, submitted, password) ==
    \E gate \in {Gate(p, s, submitted, password)} :
        /\ session' \in Kept_or_dropped(p, gate)
        /\ out' = [error |-> gate.error,
                   stopped |-> ~ gate.ok,
                   content |-> IF gate.ok THEN p ELSE "none"]

InitGate ==
    /\ page = "none"
    /\ session = NoKeys
    /\ inp = [submitted |-> FALSE, password |-> "", wrong_attempt |-> FALSE]
    /\ out = [error |-> FALSE, stopped |-> TRUE, content |-> "none"]
    /\ server = Idle

\* the user opens page p, or has the page he is on run again
GateVisit(p) ==
    /\ page' = p
    /\ inp' = [inp EXCEPT !.submitted = FALSE, !.password = ""]
    /\ GateRun(p, session, FALSE, "")
    /\ UNCHANGED server

\* the user changes the keyed password field to pw: the callback runs, then
\* the script
CallbackSubmit(pw) ==
    /\ page \in CallbackPages \cup PortfolioAnalyticsPages
    /\ out.stopped
    /\ pw # session["password"]
    /\ inp' = [submitted |-> TRUE, password |-> pw,
               wrong_attempt |-> inp.wrong_attempt \/ pw # "Faura2026"]
    /\ GateRun(page, password_entered(Put(session, "password", pw)), FALSE, "")
    /\ UNCHANGED <<page, server>>

\* the user presses "Log In" with pw in the field of the form
FormSubmit(pw) ==
    /\ page \in FormPages
    /\ out.stopped
    /\ inp' = [submitted |-> TRUE, password |-> pw,
               wrong_attempt |-> inp.wrong_attempt \/ pw # "Faura2026"]
    /\ GateRun(page, session, TRUE, pw)
    /\ UNCHANGED <<page, server>>

NextGate ==
    \/ \E p \in AllPages : GateVisit(p)
    \/ \E pw \in Passwords : CallbackSubmit(pw)
    \/ \E pw \in Passwords : FormSubmit(pw)

SpecGate == InitGate /\ [][NextGate]_vars

\* C12: a run executes the content of its page only with
\* session_state["password_correct"] True (check_password returned True),
\* and a step sets the flag to True only if it submits exactly the
\* configured password.
C12_GateSafety ==
    /\ [](~ out.stopped => (out.content = page /\ password_correct(session)))
    /\ [][(password_correct(session') /\ ~ password_correct(session))
             => (inp'.submitted /\ inp'.password = "Faura2026")]_vars

\* content is shown on a form page after a wrong and then a right password
C12_Witness ==
    /\ page = "CA_Wildfire_Savings"
    /\ ~ out.stopped
    /\ inp.wrong_attempt
    /\ inp.submitted
    /\ inp.password = "Faura2026"
    /\ password_correct(session)

\* C15: a Portfolio Analytics page shows "Password incorrect" only if an
\* incorrect password was submitted in the session before; a visit without
\* any attempt shows the password field without the error, whatever pages
\* were visited before.
C15_ErrorOnlyAfterAttempt ==
    (page \in PortfolioAnalyticsPages /\ out.error) => inp.wrong_attempt

\* the error is shown on a first visit of the page, no attempt made
C15_Witness ==
    /\ page \in PortfolioAnalyticsPages
    /\ out.stopped
    /\ out.error
    /\ ~ inp.submitted
    /\ ~ inp.wrong_attempt

\* the session state holds the configured password in plain text
Stored(s) == "password" \in DOMAIN s /\ s["password"] = "Faura2026"

\* C16: no session state with password_correct True holds the configured
\* password, and the step in which the callback accepts the password leaves
\* no "password" entry at all.
C16_PasswordNotStored ==
    /\ [](password_correct(session) => ~ Stored(session))
    /\ [][(/\ page \in CallbackPages \cup PortfolioAnalyticsPages
           /\ inp'.submitted
           /\ inp'.password = "Faura2026"
           /\ inp' # inp)
             => "password" \notin DOMAIN session']_vars

\* logged in through the callback after a wrong attempt: nothing is stored
C16_Witness ==
    /\ page \in CallbackPages
    /\ inp.submitted
    /\ inp.password = "Faura2026"
    /\ inp.wrong_attempt
    /\ password_correct(session)
    /\ "password" \notin DOMAIN session

(***************************************************************************)
(* FAIR Plan discount calculator: CA_FAIR_Savings.py.  inp holds the       *)
(* widget values (the state Streamlit keeps for each checkbox, also while  *)
(* the checkbox is disabled), out what the run computed and showed.        *)
(***************************************************************************)
Surroundings == {"c1", "c2", "c3", "c4", "c5"}

\* the structure checkboxes the user can tick; s1 is always disabled
Structure == {"s2", "s3", "s4", "s5"}

\* sum([...]) of checkbox values
CountTrue(w, boxes) == Cardinality({b \in boxes : w[b]})

\* s1: its default is not has_wood_shake and it cannot be clicked
s1(w) == ~ w.has_wood_shake

surroundings_count(w) == CountTrue(w, Surroundings)

\* the structure items counted whatever the roof
structure_count_ignoring_roof(w) ==
    CountTrue(w, Structure) + 1

structure_count(w) ==
    IF w.has_wood_shake THEN 0
    ELSE CountTrue(w, Structure) + (IF s1(w) THEN 1 ELSE 0)

is_complete(w) == surroundings_count(w) = 5 /\ structure_count(w) = 5

\* discount_accumulated after the four steps of the calculation
discount_accumulated(w) ==
    Bind(IF w.is_firewise THEN RAdd(Zero, Rat(5, 100)) ELSE Zero, LAMBDA d1 :
    Bind(RAdd(d1, RMul(R(surroundings_count(w)), Rat(6, 1000))), LAMBDA d2 :
    Bind(RAdd(d2, RMul(R(structure_count(w)), Rat(14, 1000))), LAMBDA d3 :
        IF is_complete(w) THEN RAdd(d3, Rat(14, 1000)) ELSE d3)))

\* min(discount_accumulated, 0.164)
final_discount_pct(w) ==
    Bind(discount_accumulated(w), LAMBDA d :
        IF RLt(Rat(164, 1000), d) THEN Rat(164, 1000) ELSE d)

wildfire_portion_initial(w) == RMul(R(w.base_premium), Pct(w.wildfire_load))

\* the discount applied to the whole premium
savings_on_total(w) == RMul(R(w.base_premium), final_discount_pct(w))

savings(w) == RMul(wildfire_portion_initial(w), final_discount_pct(w))

\* the progress / bonus notification under the metrics
Notification(w) ==
    IF w.has_wood_shake THEN "Structure Savings Locked"
    ELSE IF is_complete(w) THEN "MAXIMUM SAVINGS UNLOCKED"
    ELSE IF surroundings_count(w) + structure_count(w) > 0 THEN "progress"
    ELSE "none"

\* the script after the gate
FairContent(w) ==
    [surroundings_count |-> surroundings_count(w),
     structure_count |-> structure_count(w),
     is_complete |-> is_complete(w),
     discount_accumulated |-> discount_accumulated(w),
     final_discount_pct |-> final_discount_pct(w),
     wildfire_portion_initial |-> wildfire_portion_initial(w),
     savings |-> savings(w),
     notification |-> Notification(w)]

\* the premiums and wildfire loads the model enters
FairPremiums == {0, 4500}

FairLoads == {50, 85, 100}

FairDefaults ==
    [b \in {"is_firewise", "has_wood_shake"} \cup Surroundings \cup Structure
        |-> FALSE]
    @@ [base_premium |-> 4500, wildfire_load |-> 85]

InitFair ==
    /\ page = "CA_FAIR_Savings"
    /\ session = Put(NoKeys, "password_correct", TRUE)
    /\ inp = FairDefaults
    /\ out = FairContent(inp)
    /\ server = Idle

\* the widgets change to w and the script reruns
FairRerun(w) ==
    /\ inp' = w
    /\ out' = FairContent(w)
    /\ UNCHANGED <<session, page, server>>

\* the user ticks or unticks the Firewise box or a surroundings box, or
\* flips the wood-shake toggle
ToggleBox(b) ==
    /\ b \notin Structure
    /\ FairRerun([inp EXCEPT ![b] = ~ inp[b]])

\* the user ticks or unticks a structure box, which a wood-shake roof
\* disables
ToggleStructure(b) ==
    /\ ~ inp.has_wood_shake
    /\ FairRerun([inp EXCEPT ![b] = ~ inp[b]])

SetPolicy(premium, load) ==
    /\ <<premium, load>> # <<inp.base_premium, inp.wildfire_load>>
    /\ FairRerun([inp EXCEPT !.base_premium = premium, !.wildfire_load = load])

NextFair ==
    \/ \E b \in {"is_firewise", "has_wood_shake"} \cup Surroundings : ToggleBox(b)
    \/ \E b \in Structure : ToggleStructure(b)
    \/ \E premium \in FairPremiums, load \in FairLoads : SetPolicy(premium, load)

SpecFair == InitFair /\ [][NextFair]_vars

C17_FairCompletion ==
    out.notification = "MAXIMUM SAVINGS UNLOCKED"
        => out.final_discount_pct = Rat(164, 1000)

\* the announcement outside a Firewise site, at 11.4%
C17_Witness ==
    /\ out.notification = "MAXIMUM SAVINGS UNLOCKED"
    /\ ~ inp.is_firewise
    /\ out.surroundings_count = 5
    /\ out.structure_count = 5
    /\ out.final_discount_pct = Rat(114, 1000)

\* C18: with a wood-shake roof structure_count is 0 whatever the structure
\* boxes hold, there is no completion bonus and the final discount is at
\* most 8%; the run after the toggle is switched off counts the roof and
\* the structure boxes as they were left.
C18_WoodShake ==
    /\ [](inp.has_wood_shake =>
            /\ out.structure_count = 0
            /\ ~ out.is_complete
            /\ RLe(out.final_discount_pct, Rat(8, 100))
            /\ out.final_discount_pct =
                   RAdd(IF inp.is_firewise THEN Rat(5, 100) ELSE Zero,
                        RMul(R(out.surroundings_count), Rat(6, 1000))))
    /\ [][(inp.has_wood_shake /\ ~ inp'.has_wood_shake) =>
            /\ \A b \in Structure : inp'[b] = inp[b]
            /\ out'.structure_count = 1 + CountTrue(inp, Structure)]_vars

\* a wood-shake roof over ticked structure boxes, everything else done
C18_Witness ==
    /\ inp.has_wood_shake
    /\ \A b \in Structure : inp[b]
    /\ inp.is_firewise
    /\ out.surroundings_count = 5
    /\ out.structure_count = 0
    /\ out.final_discount_pct = Rat(8, 100)

(***************************************************************************)
(* The pilot-selection pages: 3_Portfolio_Analytics_Live.py,               *)
(* 4_Portfolio_Analytics_Live.py and 3_Getting_Started.py read the scored  *)
(* portfolio from the sheet, take the pilot_size worst homes and show the  *)
(* share of the expected loss they carry.  inp holds the data frame and    *)
(* the pilot size, out the ratio as computed and the pilot rows.           *)
(***************************************************************************)
\* the value of 0/0 in IEEE arithmetic
NaN == [n |-> 0, d |-> 0, u |-> 0]

\* x / y on numpy scalars (the result of Series.sum()): a zero divisor
\* gives nan or an infinity with a RuntimeWarning, never an exception
true_divide(num, den) ==
    [raised |-> FALSE, divided |-> TRUE, denom |-> den,
     value |-> IF den.n # 0 THEN RDiv(num, den)
               ELSE IF num.n = 0 THEN NaN
               ELSE Infinity(Sign(num.n))]

\* the values a cell of gross_expected_loss and of carrier_net takes here
Losses == {R(0), R(1)}

Nets == {R(-1), R(1)}

ScoredRows == [gross_expected_loss : Losses, carrier_net : Nets]

\* DataFrame.sort_values(rank_col, ascending=True): the lowest first
lowest_first(d, rank_col) ==
    {[i \in 1..Len(d) |-> d[p[i]]] :
        p \in {q \in Orders(Len(d)) :
                 \A i \in 1..(Len(d) - 1) :
                    RLe(d[q[i]][rank_col], d[q[i + 1]][rank_col])}}

\* 3_/4_Portfolio_Analytics_Live.py: loss_ratio_captured of the pilot rows
loss_ratio_captured(df, pilot_df) ==
    Bind(ColumnSum(df, "gross_expected_loss"), LAMBDA total_gross_loss :
    Bind(ColumnSum(pilot_df, "gross_expected_loss"), LAMBDA pilot_loss :
        Times100(true_divide(pilot_loss, total_gross_loss))))

\* 3_Getting_Started.py: pct_loss of the top_n rows
pct_loss(df, top_n) ==
    Bind(ColumnSum(df, "gross_expected_loss"), LAMBDA total_gel :
    Bind(ColumnSum(top_n, "gross_expected_loss"), LAMBDA top_n_loss :
        IF RGt(total_gel, Zero)
        THEN Times100(true_divide(top_n_loss, total_gel))
        ELSE NoDivision(Zero)))

PilotPages == PortfolioAnalyticsPages \cup {"3_Getting_Started"}

\* what a run of page p over the sheet df with pilot size k may show
PilotContent(p, df, k) ==
    IF p \in PortfolioAnalyticsPages
    THEN {[ratio |-> loss_ratio_captured(df, head(df_sorted, k)),
           rows |-> head(df_sorted, k)] :
             df_sorted \in lowest_first(df, "carrier_net")}
    ELSE {[ratio |-> pct_loss(df, head(df_sorted, k)),
           rows |-> head(df_sorted, k)] :
             df_sorted \in sort_values(df, "gross_expected_loss")}

\* the pilot sizes page p offers over df: the slider of the Portfolio
\* Analytics pages ends at len(df), the number input has no maximum
PilotSizeRange(p, df) ==
    IF p \in PortfolioAnalyticsPages THEN 1..Len(df) ELSE 1..(MaxHomes + 1)

InitPilot ==
    /\ page = "3_Getting_Started"
    /\ session = Put(NoKeys, "password_correct", TRUE)
    /\ inp \in [df : [1..1 -> ScoredRows], pilot_size : {1}]
    /\ out \in PilotContent(page, inp.df, inp.pilot_size)
    /\ server = Idle

\* a run of the page p over the sheet df with the pilot size set to k
PilotRun(p, df, k) ==
    /\ page' = p
    /\ inp' = [df |-> df, pilot_size |-> k]
    /\ out' \in PilotContent(p, df, k)
    /\ UNCHANGED <<session, server>>

\* the user opens another pilot-selection page, whose pilot size starts
\* at its default
PilotVisit(p) ==
    /\ p # page
    /\ PilotRun(p, inp.df, 1)

\* the user moves the pilot size
SetPilotSize(k) ==
    /\ k # inp.pilot_size
    /\ k \in PilotSizeRange(page, inp.df)
    /\ PilotRun(page, inp.df, k)

\* the sheet has gained a row when the cached load_data expires
SheetGrows(row) ==
    /\ Len(inp.df) < MaxHomes
    /\ PilotRun(page, Append(inp.df, row), inp.pilot_size)

NextPilot ==
    \/ \E p \in PilotPages : PilotVisit(p)
    \/ \E k \in 1..(MaxHomes + 1) : SetPilotSize(k)
    \/ \E row \in ScoredRows : SheetGrows(row)

SpecPilot == InitPilot /\ [][NextPilot]_vars

\* the sheet's total gross expected loss is 0
NoExpectedLoss ==
    /\ inp.df # <<>>
    /\ ColumnSum(inp.df, "gross_expected_loss") = Zero

\* C14: on the three pilot-selection pages a portfolio whose total gross
\* expected loss is 0 shows the sentinel 0 as captured-loss percentage, and
\* no run divides by zero.
C14_CapturedLossGuard ==
    /\ out.ratio.divided => out.ratio.denom # Zero
    /\ NoExpectedLoss => (~ out.ratio.divided /\ out.ratio.value = Zero)

\* a Portfolio Analytics run over a sheet without expected loss: 0/0
C14_Witness ==
    /\ page \in PortfolioAnalyticsPages
    /\ NoExpectedLoss
    /\ out.ratio.divided
    /\ out.ratio.denom = Zero
    /\ out.ratio.value = NaN

\* On 3_Getting_Started.py the guard holds: total 0 shows 0 without a
\* division, and a division has a positive divisor.
PctLossGuarded ==
    page = "3_Getting_Started" =>
        /\ out.ratio.divided => RGt(out.ratio.denom, Zero)
        /\ NoExpectedLoss => (~ out.ratio.divided /\ out.ratio.value = Zero)

\* Getting Started over a sheet without expected loss
PctLossGuardedWitness ==
    /\ page = "3_Getting_Started"
    /\ NoExpectedLoss
    /\ out.ratio = NoDivision(Zero)

(***************************************************************************)
(* Carrier discount calculator: CA_Wildfire_Savings.py.  server holds the  *)
(* page's directory (the discount table, if there is one) and what         *)
(* st.cache_data kept of load_carrier_data; inp holds the widget values,   *)
(* out how far the run came and what it accumulated.                       *)
(***************************************************************************)
\* pd.DataFrame(): no rows and no columns
EmptyFrame == [rows |-> <<>>, columns |-> {}]

\* the percentages a cell of the discount table holds here
ItemValues == {Zero, Rat(1, 10), R(3), R(5)}

\* the checklist items of the model: one property item and the two
\* community items
ItemKeys == {"Debris Removal", "Firewise USA", "Fire Risk Community"}

TableColumns == {"Carrier", "Logic_Type", "Discount_Basis"} \cup ItemKeys

\* a discount table with a Mercury row and a row of a carrier with
\* standard logic
DiscountTable(firewise, fire_risk) ==
    [rows |-> << [Carrier |-> "Mercury", Logic_Type |-> "Mercury_Complex",
                  Discount_Basis |-> "Total Premium",
                  items |-> [k \in ItemKeys |->
                               IF k = "Firewise USA" THEN firewise
                               ELSE IF k = "Fire Risk Community" THEN fire_risk
                               ELSE R(3)]],
                 [Carrier |-> "Standard Mutual", Logic_Type |-> "Standard",
                  Discount_Basis |-> "Total Premium",
                  items |-> [k \in ItemKeys |-> R(3)]] >>,
     columns |-> TableColumns]

\* what the page's directory may hold: no DiscountTable*.csv, or a table
Directories ==
    {EmptyFrame}
    \cup {DiscountTable(fw, fr) : fw \in ItemValues, fr \in ItemValues}

\* load_carrier_data(): the table of the file found, or the error and an
\* empty frame
load_carrier_data(directory) ==
    [error |-> directory = EmptyFrame, df |-> directory]

\* st.cache_data around load_carrier_data: the body runs once per server
cached_load_carrier_data(srv) ==
    IF srv.cache_data # <<>> THEN [server |-> srv, result |-> srv.cache_data[1]]
    ELSE [server |-> [srv EXCEPT !.cache_data = <<load_carrier_data(srv.listdir)>>],
          result |-> load_carrier_data(srv.listdir)]

\* get_item_discount for the logic types of the model's table
get_item_discount(logic_type, separation, item_key, base_val) ==
    IF logic_type = "Mercury_Complex" /\ item_key = "Merc_Mit_Std"
    THEN (IF separation = "<= 10 ft" THEN R(5)
          ELSE IF separation = ">= 30 ft" THEN R(25) ELSE R(8))
    ELSE IF logic_type = "Mercury_Complex" /\ item_key = "Merc_Mit_Plus"
    THEN (IF separation = "<= 10 ft" THEN R(8)
          ELSE IF separation = ">= 30 ft" THEN R(33) ELSE R(25))
    ELSE base_val

\* discount_item: the item's value if its box is checked
discount_item(carrier_row, checked, csv_key) ==
    IF csv_key \in checked
    THEN get_item_discount(carrier_row.Logic_Type, "<= 10 ft", csv_key,
                           carrier_row.items[csv_key])
    ELSE Zero

\* deduction: 5.0 for Firewise, 0.1 for Fire Risk
deduction(checked) ==
    RAdd(IF "Firewise USA" \in checked THEN R(5) ELSE Zero,
         IF "Fire Risk Community" \in checked THEN Rat(1, 10) ELSE Zero)

final_comm_val(checked) ==
    IF {"Firewise USA", "Fire Risk Community"} \subseteq checked THEN Rat(161, 10)
    ELSE IF "Firewise USA" \in checked THEN R(16)
    ELSE IF "Fire Risk Community" \in checked THEN Rat(151, 10)
    ELSE R(15)

\* accumulated_discount_pct after the checklist and the Mercury community
\* stacking
accumulated_discount_pct(carrier_row, w) ==
    Bind(RAdd(RAdd(discount_item(carrier_row, w.checked, "Debris Removal"),
                   discount_item(carrier_row, w.checked, "Firewise USA")),
              discount_item(carrier_row, w.checked, "Fire Risk Community")),
         LAMBDA acc :
        IF carrier_row.Logic_Type = "Mercury_Complex" /\ w.community
        THEN RAdd(RSub(acc, deduction(w.checked)),
                  final_comm_val(w.checked))
        ELSE acc)

\* df_base['Carrier'].unique()
Carriers(df) == {df.rows[i].Carrier : i \in DOMAIN df.rows}

\* df_base[df_base['Carrier'] == selected_carrier].iloc[0]
CarrierRow(df, selected_carrier) ==
    df.rows[CHOOSE i \in DOMAIN df.rows : df.rows[i].Carrier = selected_carrier]

\* the script after the gate over the loaded table: df_base['Carrier']
\* raises KeyError on a frame without that column, and the test of
\* df_base.empty is the last statement
CarrierContent(loaded, w) ==
    IF "Carrier" \notin loaded.df.columns
    THEN [raised |-> "KeyError", error |-> loaded.error, stopped |-> FALSE,
          selection |-> TRUE, accumulated_discount_pct |-> Zero,
          carrier |-> "none"]
    ELSE [raised |-> "none", error |-> loaded.error,
          stopped |-> loaded.df.rows = <<>>, selection |-> TRUE,
          accumulated_discount_pct |->
              accumulated_discount_pct(
                  CarrierRow(loaded.df, w.selected_carrier), w),
          carrier |-> w.selected_carrier]

\* the widgets of a first run; the select box starts at the first carrier
CarrierDefaults ==
    [checked |-> {}, community |-> FALSE, selected_carrier |-> "Mercury"]

\* a server started over directory, before the first run; the first run of
\* the model is over the table with 5.0 and 0.1 for the community items
Started(directory) ==
    [np_random |-> 0, cache_data |-> <<>>, listdir |-> directory]

\* a run of the script on server srv with widgets w
CarrierRun(srv, w) ==
    \E call \in {cached_load_carrier_data(srv)} :
        /\ server' = call.server
        /\ inp' = w
        /\ out' = CarrierContent(call.result, w)
        /\ UNCHANGED <<session, page>>

InitCarrier ==
    /\ page = "CA_Wildfire_Savings"
    /\ session = Put(NoKeys, "password_correct", TRUE)
    /\ inp = CarrierDefaults
    /\ \E call \in {cached_load_carrier_data(
                        Started(DiscountTable(R(5), Rat(1, 10))))} :
          /\ server = call.server
          /\ out = CarrierContent(call.result, inp)

\* the app is deployed again over another directory and the page is opened
Redeploy(directory) ==
    /\ directory # server.listdir
    /\ CarrierRun(Started(directory), CarrierDefaults)

\* the user checks or unchecks an item of the checklist
ToggleItem(k) ==
    /\ out.raised = "none"
    /\ CarrierRun(server,
                  [inp EXCEPT !.checked =
                      IF k \in @ THEN @ \ {k} ELSE @ \cup {k}])

\* the user checks or unchecks "Mercury Wildfire Mitigation Community"
ToggleCommunity ==
    /\ out.raised = "none"
    /\ CarrierRow(server.cache_data[1].df, inp.selected_carrier).Logic_Type
           = "Mercury_Complex"
    /\ CarrierRun(server, [inp EXCEPT !.community = ~ @])

\* the user selects another carrier; the community box of the Mercury
\* layout is not kept
SelectCarrier(c) ==
    /\ out.raised = "none"
    /\ c \in Carriers(server.cache_data[1].df)
    /\ c # inp.selected_carrier
    /\ CarrierRun(server,
                  [inp EXCEPT !.selected_carrier = c, !.community = FALSE])

NextCarrier ==
    \/ \E directory \in Directories : Redeploy(directory)
    \/ \E k \in ItemKeys : ToggleItem(k)
    \/ ToggleCommunity
    \/ \E c \in {"Mercury", "Standard Mutual"} : SelectCarrier(c)

SpecCarrier == InitCarrier /\ [][NextCarrier]_vars

\* C19: with no DiscountTable*.csv in the directory, load_carrier_data
\* reports the error and returns an empty table, and the run stops without
\* running the carrier selection and without raising.
C19_MissingTableStops ==
    server.listdir = EmptyFrame =>
        /\ out.error
        /\ server.cache_data[1].df = EmptyFrame
        /\ out.stopped
        /\ ~ out.selection
        /\ out.raised = "none"

\* a run over a directory without the table: the error is reported, the
\* empty frame is returned and the carrier selection raises KeyError
C19_Witness ==
    /\ server.listdir = EmptyFrame
    /\ out.error
    /\ server.cache_data[1].df = EmptyFrame
    /\ out.selection
    /\ out.raised = "KeyError"
    /\ ~ out.stopped

\* what the Firewise item, the Fire Risk item and the community bundle
\* contributed together: the accumulated discount without the other items
CommunityContribution ==
    RSub(out.accumulated_discount_pct,
         discount_item(CarrierRow(server.cache_data[1].df, out.carrier),
                       inp.checked, "Debris Removal"))

\* the Mercury layout with the community box checked
MercuryBundle ==
    /\ out.raised = "none"
    /\ out.carrier = "Mercury"
    /\ inp.community

\* C20: for the Mercury carrier with the community box checked, the
\* Firewise item, the Fire Risk item and the bundle together contribute the
\* bundle value (15.0, 16.0, 15.1 or 16.1), whatever the table row holds
\* for the two items.
C20_BundleReplacesCredits ==
    MercuryBundle => CommunityContribution = final_comm_val(inp.checked)

\* Firewise checked with the bundle over a row that gives 3% for Firewise:
\* the three contribute 3 - 5 + 16 = 14
C20_Witness ==
    /\ MercuryBundle
    /\ inp.checked = {"Firewise USA"}
    /\ server.listdir = DiscountTable(R(3), Rat(1, 10))
    /\ CommunityContribution = R(14)

\* With the row holding 5.0 for Firewise USA and 0.1 for Fire Risk
\* Community the bundle replaces the credits exactly.
BundleExactOnFiledRates ==
    (MercuryBundle /\ server.listdir = DiscountTable(R(5), Rat(1, 10)))
        => CommunityContribution = final_comm_val(inp.checked)

(***************************************************************************)
(* The pilot of the Portfolio Analytics pages against the ranking by       *)
(* gross expected loss (SpecPilot).                                        *)
(***************************************************************************)
\* the expected loss carried by the rows shown as the pilot
PilotLoss == ColumnSum(out.rows, "gross_expected_loss")

\* the largest expected loss any pilot_size homes of the sheet carry: the
\* loss of the first pilot_size rows in descending order of loss
TopLoss ==
    ColumnSum(head(CHOOSE d \in sort_values(inp.df, "gross_expected_loss") : TRUE,
                   inp.pilot_size),
              "gross_expected_loss")

\* C22: on the Portfolio Analytics pages the pilot is the pilot_size homes
\* with the highest gross expected loss: the loss it carries, and so the
\* share it reports, is the largest any pilot_size homes can carry (no home
\* left out has a larger loss than a home taken).
C22_RiskiestPrefix ==
    page \in PortfolioAnalyticsPages => PilotLoss = TopLoss

\* a Portfolio Analytics pilot of one home out of several that carries no
\* expected loss although a home left out does
C22_Witness ==
    /\ page \in PortfolioAnalyticsPages
    /\ inp.pilot_size = 1
    /\ Len(inp.df) > 1
    /\ out.rows[1].gross_expected_loss = Zero
    /\ out.rows[1].carrier_net = R(-1)
    /\ TopLoss = R(1)
    /\ PilotLoss = Zero

\* On 3_Getting_Started.py, which sorts by gross_expected_loss descending,
\* the pilot carries the largest loss.
GettingStartedRiskiest ==
    page = "3_Getting_Started" => PilotLoss = TopLoss

(***************************************************************************)
(* The breakeven of the Conversion Elasticity sweep: the page with its     *)
(* sidebar set to fees and incentives that put the breakeven early, late   *)
(* or nowhere.  inp holds the widget values, out the data frame and the    *)
(* breakeven of the rerun.                                                 *)
(***************************************************************************)
\* the values the model enters into the sidebar of Conversion_Elasticity.py
SweepChoices ==
    [n_homes |-> {0, 1000},
     burn_prob_input |-> {0, 1},
     mdr_mitigated_input |-> {30, 80},
     faura_cost |-> {T(30), T(0), T(3000), T(4850), T(6000)},
     gift_card |-> {T(50), T(5000)},
     premium_discount |-> {T(100), T(0)}]

InitSweep ==
    /\ page = "Conversion_Elasticity"
    /\ session = Put(NoKeys, "password_correct", TRUE)
    /\ inp = InitialWidgets(page)
    /\ out = FreshContent[page]
    /\ server = Idle

\* the user changes sidebar widget f to v: the script reruns
SetSweepWidget(f, v) ==
    /\ v # inp[f]
    /\ inp' = [inp EXCEPT ![f] = v]
    /\ Rerun(page, session, inp')
    /\ UNCHANGED <<page, server>>

\* the user comes back to the page from another one: the widgets start
\* from their defaults
SweepRevisit ==
    /\ inp # InitialWidgets(page)
    /\ inp' = InitialWidgets(page)
    /\ Rerun(page, session, inp')
    /\ UNCHANGED <<page, server>>

NextSweep ==
    \/ \E f \in DOMAIN SweepChoices : \E v \in SweepChoices[f] : SetSweepWidget(f, v)
    \/ SweepRevisit

SpecSweep == InitSweep /\ [][NextSweep]_vars

\* the rows of the sweep shown whose Net_Benefit is strictly positive
Profitable == {i \in 1..SweepPoints : RGt(out.df[i].Net_Benefit, Zero)}

\* C21: on the Conversion Elasticity page the sweep has the rows 0%, 1%,
\* ..., 100%, each with Net_Benefit = Faura_Profit - Status_Quo_Profit and
\* the same Status_Quo_Profit; the breakeven reported is the rate of the
\* first row whose Net_Benefit is strictly positive, and "Never" is
\* reported exactly when no row has a positive Net_Benefit.
C21_Breakeven ==
    Shown("Conversion_Elasticity") =>
        /\ Len(out.df) = SweepPoints
        /\ \A i \in 1..SweepPoints :
              /\ out.df[i].Conversion_Rate = R(i - 1)
              /\ out.df[i].Status_Quo_Profit = out.df[1].Status_Quo_Profit
              /\ out.df[i].Net_Benefit =
                     RSub(out.df[i].Faura_Profit, out.df[i].Status_Quo_Profit)
        /\ out.breakeven.found <=> Profitable # {}
        /\ out.breakeven.found =>
              \E i \in Profitable :
                  /\ out.breakeven.rate = R(i - 1)
                  /\ \A j \in 1..(i - 1) : RLe(out.df[j].Net_Benefit, Zero)

\* a fee of $3,000 per home against the default incentives: the sweep
\* loses up to 61% and the breakeven reported is 62%
C21_Witness ==
    /\ Shown("Conversion_Elasticity")
    /\ inp.faura_cost = T(3000)
    /\ RLt(out.df[62].Net_Benefit, Zero)
    /\ RGt(out.df[63].Net_Benefit, Zero)
    /\ out.breakeven = [rate |-> R(62), found |-> TRUE]

\* a sweep that neither gains nor loses at 0% and gains from 1% on: the
\* breakeven reported is 1%
BreakevenAfterZero ==
    /\ Shown("Conversion_Elasticity")
    /\ out.df[1].Net_Benefit = Zero
    /\ RGt(out.df[2].Net_Benefit, Zero)
    /\ out.breakeven = [rate |-> R(1), found |-> TRUE]

\* a sweep whose best row, 100%, exactly recovers the fee: "Never"
NeverProfitable ==
    /\ Shown("Conversion_Elasticity")
    /\ out.df[SweepPoints].Net_Benefit = Zero
    /\ RLt(out.df[1].Net_Benefit, Zero)
    /\ Profitable = {}
    /\ ~ out.breakeven.found

====
